---- MODULE Spec2Model ----
(***************************************************************************)
(* RMU Phase Tracker (src/scripts/main.js).                                *)
(*                                                                         *)
(* Part I  - the replication protocol: the combat flag state written by    *)
(*           the GM (the holder), the per-client optimistic _pending map,  *)
(*           the module socket and the UI handlers that submit path        *)
(*           updates.  Specification Spec.                                 *)
(* Part II - the chain evaluator: evaluateChainsWithPenalty run one loop   *)
(*           iteration per step, and analyzeChainsForUI.                   *)
(*           Specification SpecChain.                                      *)
(*                                                                         *)
(* Action points are counted in half points (capacity 1 AP = 2, 0.5 AP =   *)
(* 1), so that the halved capacities of a concentrating actor stay         *)
(* integers.                                                               *)
(***************************************************************************)
EXTENDS Integers, Sequences, FiniteSets, TLC

VARIABLES
  \* ---- Part I
  auth,       \* flags[MODULE_ID].state of the Combat document (the GM's copy)
  snap,       \* each player's local copy of that flag (combat.getFlag)
  pending,    \* _pending of each client: path -> value, Absent = no entry
  sock,       \* module socket: per sender, the messages not yet handled by the GM
  gmWrites,   \* the GM's combat.setFlag calls that are awaiting the host
  nEvents,    \* UI events so far
  nWrites,    \* calls of requestStatePathUpdate they make
  nFails,     \* failed setFlag calls so far
  hist,       \* history of the run, read only by the properties
  \* ---- Part II
  phases,        \* the phase list of the analysis (phasesAnalysis)
  planActions,   \* selector key -> action key, "none" if not set
  capByKey,      \* selector key -> AP capacity
  finActs,       \* the selector keys with the finish-early flag
  concentrating, \* a concentration toggle is on
  curRound, curPhase,
  idx,           \* phases the loop of evaluateChainsWithPenalty has done
  currentAction, remaining, spentAP, minCost, maxCost, isRange,
  spentPhaseIdxs, results,
  brk,           \* what the last iteration did, read only by the properties
  ui,            \* the result of analyzeChainsForUI
  \* ---- Part III
  win,           \* one call of buildPhasesForAnalysis: its inputs and its window
  \* ---- Part IV
  actor,         \* what the movement code reads of the actor and of its plan state
  scene,         \* the grid distance of the scene, 0 when it is gridless
  mvPlan,        \* planActions of the combatant
  combat,        \* round and phase of the combat, and the slots of a phase
  track,         \* _moveTrack entry of the token
  carry,         \* _prevPhaseCarry entry of the token
  inflight,      \* token updates issued and not yet back from the host
  nReq,          \* position requests so far
  moved,         \* feet committed per usage key in the whole run, read only by the properties
  mvLast,        \* what the last preUpdateToken decided, read only by the properties
  \* ---- Part V
  concFlags,     \* per combatant, the flags of state.combatants[cid].concFlags that are true
  concSnap,      \* each player's local copy of them (combat.getFlag)
  concPending,   \* _pending entry of each client for the path concFlags
  concSock,      \* module socket: per sender, the messages not yet handled by the GM
  concWrites,    \* the GM's combat.setFlag calls that are awaiting the host
  curGroup,      \* per combatant, what the selectors of the current slot group hold
  nClicks,       \* UI events so far
  concLast,      \* what the last toggleConcFlag click did, read only by the properties
  \* ---- Part VI
  capIn,         \* one call of buildCapByKey: its arguments
  capOut,        \* the key list it builds and the capacities it returns
  \* ---- Part VII
  rendered,      \* per client, whether its tracker panel is rendered (_rmuCptApp.rendered)
  tracks,        \* per client, its _moveTrack entry of the token
  preview,       \* per client, whether its _movePreview has an entry of the token
  updates,       \* token updates sent to the host and not yet applied
  nObs,          \* user events so far
  obsLast,       \* what the last preUpdateToken of a client decided, read only by the properties
  \* ---- Part VIII
  cRound,        \* combat.round of the Combat document
  hooks,         \* per player, the round changes it has not received yet, each with the flag of that moment
  racing,        \* the combatants with a choice on its way at the last round change, read only by the properties
  \* ---- Part IX
  finInfo,       \* detectPhaseInfo and detectApPerPhase of the combat: round, phase, phaseCount, apPerPhase
  finLast,       \* the last finish-early request that applyVddValue decided on, read only by the properties
  \* ---- Part X
  unk,           \* the outputs of the chain evaluator for the plan as given, kept for the comparison
  \* ---- Part XI
  paceIn,        \* one classification of a distance: its arguments
  paceOut,       \* the cap and the pace the movement code computes for them
  \* ---- Part XII
  slotIn,        \* one call of a helper of the slot layout or of the allocation: its arguments
  slotOut,       \* what the helper returns
  \* ---- Part XIV
  cd,            \* state.combatants[cid] of one combatant: bonusCount and the plan maps
  cdLast,        \* the last bonusCount event and the entry it found, read only by the properties
  \* ---- Part XV
  mvPreview      \* the round of the _movePreview entry of the token, 0 when there is none

replVars  == <<auth, snap, pending, sock, gmWrites, nEvents, nWrites, nFails, hist>>
inputVars == <<phases, planActions, capByKey, finActs, concentrating, curRound, curPhase>>
loopVars  == <<idx, currentAction, remaining, spentAP, minCost, maxCost, isRange,
               spentPhaseIdxs, results, brk, ui>>
chainVars == <<inputVars, loopVars>>
winVars   == <<win>>
moveVars  == <<actor, scene, mvPlan, combat, track, carry, inflight, nReq, moved, mvLast>>
concVars  == <<concFlags, concSnap, concPending, concSock, concWrites, curGroup,
               nClicks, concLast>>
capVars   == <<capIn, capOut>>
obsVars   == <<rendered, tracks, preview, updates, nObs, obsLast>>
rstVars   == <<cRound, hooks, racing>>
finVars   == <<finInfo, finLast>>
unkVars   == <<unk>>
paceVars  == <<paceIn, paceOut>>
slotVars  == <<slotIn, slotOut>>
bonVars   == <<cd, cdLast>>
pvVars    == <<mvPreview>>
restVars  == <<winVars, moveVars, concVars, capVars, obsVars, rstVars, finVars, unkVars,
               paceVars, slotVars, bonVars, pvVars>>
vars      == <<replVars, chainVars, restVars>>

-----------------------------------------------------------------------------
(* Part I: replication                                                     *)

MaxEvents == 2      \* UI events in a run
MaxPathWrites == 4  \* calls of requestStatePathUpdate in a run
MaxFails  == 1      \* setFlag calls the host rejects in a run
MaxVal    == 2      \* distinct values a path is given

Absent == 0         \* a path that is not set (undefined)
Vals   == 1..MaxVal

\* The value "available" of the path instantAction.
Available == MaxVal + 1

Holder    == "gm"
Players   == {"p1", "p2"}
Observers == {Holder} \cup Players

\* Two combatants: "pc" is an actor with player owners, "npc" has none.
Combatants == {"pc", "npc"}
PlayerOwners(cid) == IF cid = "pc" THEN {"p1", "p2"} ELSE {}

Fields == {"planActions", "planAuto", "planCosts", "finActs", "bonusCount",
           "instantAction", "concFlags", "holdAction",
           "mentalFocusStartRound", "mentalFocusAckRound"}
Paths  == Combatants \X Fields

NoState   == [p \in Paths |-> Absent]
NoPending == [p \in Paths |-> Absent]

\* isGmOwnedActor: no non-GM user owns the actor.
isGmOwnedActor(cid) == PlayerOwners(cid) = {}

\* isGmReadOnlyCombatant: false for every player; for the GM, true on actors
\* that a player owns.
isGmReadOnlyCombatant(o, cid) ==
  IF o # Holder THEN FALSE ELSE ~isGmOwnedActor(cid)

\* getVisibleCombatants: the GM sees the combatant, a player only one it owns.
getVisibleCombatants(o, cid) == o = Holder \/ o \in PlayerOwners(cid)

\* The copy of the flag a client reads with combat.getFlag.
getFlag(o) == IF o = Holder THEN auth ELSE snap[o]

\* applyPendingToState: every pending entry of the client overrides the path.
applyPendingToState(o, state) ==
  [p \in Paths |-> IF pending[o][p] # Absent THEN pending[o][p] ELSE state[p]]

\* The state the tracker view-model (getData) and the edit handlers read.
getData(o) ==
  IF o = Holder THEN getFlag(o) ELSE applyPendingToState(o, getFlag(o))

\* getStateForRead: pending applied for everyone.
getStateForRead(o) == applyPendingToState(o, getFlag(o))

\* The state preUpdateToken reads for the plan, the instantaneous action and
\* the concentration flags.
preUpdateTokenState(o) == getFlag(o)

-----------------------------------------------------------------------------
(* History, updated along with the protocol.                               *)

NoHist ==
  [ subm        |-> [o \in Observers |-> [p \in Paths |-> 0]],
    intent      |-> [o \in Observers |-> [p \in Paths |-> Absent]],
    confirmed   |-> {},
    failedW     |-> [o \in Observers |-> [p \in Paths |-> Absent]],
    lastReached |-> [p \in Paths |-> Absent],
    lastOk      |-> [p \in Paths |-> Absent],
    reqCount    |-> [p \in Paths |-> 0],
    overlap     |-> FALSE,
    denied      |-> FALSE,
    chosenAt    |-> [c \in Combatants |-> 0] ]

\* An obligation to show v ends once the authoritative copy holds v.
Settle(int, a) ==
  [o \in Observers |-> [p \in Paths |-> IF int[o][p] = a[p] THEN Absent ELSE int[o][p]]]

\* o submits v for every path of ps.
HistSubmit(h, o, ps, v) ==
  [h EXCEPT
     !.subm      = [@ EXCEPT ![o] = [p \in Paths |-> IF p \in ps THEN @[p] + 1 ELSE @[p]]],
     !.intent    = [@ EXCEPT ![o] = [p \in Paths |-> IF p \in ps THEN v ELSE @[p]]],
     !.confirmed = @ \ ({o} \X ps),
     !.failedW   = [@ EXCEPT ![o] = [p \in Paths |-> IF p \in ps THEN Absent ELSE @[p]]],
     !.chosenAt  = [c \in Combatants |->
                      IF <<c, "instantAction">> \in ps /\ v # Available THEN cRound ELSE @[c]]]

\* A request for path p with value v reaches the holder; overlap: it does so
\* while a write to another path is awaiting the host.
HistReach(h, p, v) ==
  [h EXCEPT !.lastReached = [@ EXCEPT ![p] = v],
            !.reqCount    = [@ EXCEPT ![p] = @ + 1],
            !.overlap     = @ \/ \E i \in 1..Len(gmWrites) : gmWrites[i].path # p]

\* The write w ended, with success or not.
HistEnd(h, w, ok) ==
  LET latest == w.n = h.subm[w.by][w.path] IN
  [h EXCEPT
     !.lastOk    = IF ok THEN [@ EXCEPT ![w.path] = w.val] ELSE @,
     !.confirmed = IF ok /\ latest THEN @ \cup {<<w.by, w.path>>} ELSE @,
     !.failedW   = IF ~ok /\ latest THEN [@ EXCEPT ![w.by][w.path] = w.val] ELSE @]

-----------------------------------------------------------------------------
(* requestStatePathUpdate and the socket handler                           *)

\* combat.setFlag(MODULE_ID, "state", clone) is an update of the Combat
\* document: the host sends the paths of the value passed that differ from
\* the client's copy of the document, and merges them into the document when
\* the update is applied ("Foundry merges", applyAutofillToPlan).
setFlagChanges(state, clone) == {p \in Paths : clone[p] # state[p]}

mergeChanges(state, w) ==
  [p \in Paths |-> IF p \in w.changes THEN w.clone[p] ELSE state[p]]

\* GmWrite with setProperty left out: the clone is passed as read.
GmWriteNoSet(state, o, path, v, n, own, rest) ==
  [ changes |-> setFlagChanges(state, state), clone |-> state,
    path |-> path, val |-> v, by |-> o, n |-> n, own |-> own, rest |-> rest ]

\* The GM branch of requestStatePathUpdate up to `await combat.setFlag`:
\* the state is read, cloned, the path is set in the clone and the clone is
\* handed to setFlag.  rest: the paths the calling handler writes next.
GmWrite(state, o, path, v, n, own, rest) ==
  LET clone == [state EXCEPT ![path] = v] IN
  [ changes |-> setFlagChanges(state, clone), clone |-> clone,
    path |-> path, val |-> v, by |-> o, n |-> n, own |-> own, rest |-> rest ]

\* A handler of client o writes the paths ws (in this order) of combatant
\* cid, each through requestStatePathUpdate.
\*  - player: every call sets the pending entry and emits "setStatePath";
\*    nothing is awaited in between.
\*  - GM: the first call sets the pending entry and awaits setFlag; the next
\*    calls follow when that write has ended.
RequestStatePaths(o, cid, fs, v) ==
  LET ws == [i \in 1..Len(fs) |-> <<cid, fs[i]>>]
      ps == {ws[i] : i \in 1..Len(ws)}
      h1 == HistSubmit(hist, o, IF o = Holder THEN {ws[1]} ELSE ps, v)
  IN
  /\ nEvents < MaxEvents
  /\ v <= nEvents + 1          \* values are numbered in the order of their use
  /\ nWrites + Len(fs) <= MaxPathWrites
  /\ nEvents' = nEvents + 1
  /\ nWrites' = nWrites + Len(fs)
  /\ IF o = Holder
       THEN /\ pending' = [pending EXCEPT ![o][ws[1]] = v]
            /\ gmWrites' = Append(gmWrites,
                 GmWrite(auth, o, ws[1], v, h1.subm[o][ws[1]], TRUE, Tail(ws)))
            /\ sock' = sock
            /\ hist' = [HistReach(h1, ws[1], v) EXCEPT !.intent = Settle(@, auth)]
       ELSE /\ pending' = [pending EXCEPT ![o] =
                 [p \in Paths |-> IF p \in ps THEN v ELSE @[p]]]
            /\ sock' = [sock EXCEPT ![o] = @ \o
                 [i \in 1..Len(ws) |-> [path |-> ws[i], val |-> v, n |-> h1.subm[o][ws[i]]]]]
            /\ gmWrites' = gmWrites
            /\ hist' = [h1 EXCEPT !.intent = Settle(@, auth)]
  /\ UNCHANGED <<auth, snap, nFails>>

Request(o, cid, fs, v) == RequestStatePaths(o, cid, fs, v) /\ UNCHANGED <<chainVars, restVars>>

\* A handler that returns at its authority check: nothing changes.
Rejected(o, cid) ==
  /\ nEvents < MaxEvents
  /\ nEvents' = nEvents + 1
  /\ hist' = [hist EXCEPT !.denied = TRUE]
  /\ UNCHANGED <<auth, snap, pending, sock, gmWrites, nWrites, nFails, chainVars, restVars>>

PlanFields  == <<"planActions", "planAuto", "planCosts", "finActs">>
ConcFields  == <<"concFlags", "holdAction">>
FocusFields == <<"mentalFocusStartRound", "mentalFocusAckRound">>
AutofillFields == <<"bonusCount", "planActions", "planAuto", "planCosts">>

\* applyVddValue, field "instantAction".
ApplyVddInstant(o, cid, v) ==
  /\ getVisibleCombatants(o, cid)
  /\ IF isGmReadOnlyCombatant(o, cid)
       THEN Rejected(o, cid)
       ELSE Request(o, cid, <<"instantAction">>, v)

\* applyVddValue, fields "phaseAction", "phaseCost" and "finAct" (on a key of
\* the current slot group): four path writes.
ApplyVddPlan(o, cid, v) ==
  /\ getVisibleCombatants(o, cid)
  /\ IF isGmReadOnlyCombatant(o, cid)
       THEN Rejected(o, cid)
       ELSE Request(o, cid, PlanFields, v)

\* The bonus spinner and its +/- buttons: setBonusCount.
BonusSpinner(o, cid, v) ==
  /\ getVisibleCombatants(o, cid)
  /\ IF isGmReadOnlyCombatant(o, cid)
       THEN Rejected(o, cid)
       ELSE Request(o, cid, <<"bonusCount">>, v)

\* The "change" listener of activateListeners for data-field bonusCount:
\* it writes bonusCount and then the plan that applyAutofillToPlan returns.
BonusChange(o, cid, v) ==
  /\ getVisibleCombatants(o, cid)
  /\ Request(o, cid, AutofillFields, v)

\* The toggleConcFlag button, when the toggle is accepted; focus: the toggle
\* takes the number of active flags from 0 to 1 or down to 0, and the
\* reminder bookkeeping is written first.
ToggleConc(o, cid, v, focus) ==
  /\ getVisibleCombatants(o, cid)
  /\ IF isGmReadOnlyCombatant(o, cid)
       THEN Rejected(o, cid)
       ELSE Request(o, cid, IF focus THEN FocusFields \o ConcFields ELSE ConcFields, v)

\* game.socket.on: the GM handles one "setStatePath" message of sender o.
Deliver(o) ==
  /\ sock[o] # <<>>
  /\ LET m == Head(sock[o]) IN
       /\ gmWrites' = Append(gmWrites,
            GmWrite(auth, o, m.path, m.val, m.n, FALSE, <<>>))
       /\ hist' = HistReach(hist, m.path, m.val)
  /\ sock' = [sock EXCEPT ![o] = Tail(@)]
  /\ UNCHANGED <<auth, snap, pending, nEvents, nWrites, nFails, chainVars, restVars>>

\* What follows `await combat.setFlag` in the caller of the write w, once
\* the write has ended: the GM's own requestStatePathUpdate returns to its
\* handler, which calls requestStatePathUpdate for the next path.
Continue(w, state, pd, h) ==
  IF w.rest = <<>>
    THEN [pending |-> pd, writes |-> <<>>, hist |-> h]
    ELSE LET p  == Head(w.rest)
             h1 == HistReach(HistSubmit(h, w.by, {p}, w.val), p, w.val)
         IN [pending |-> [pd EXCEPT ![w.by][p] = w.val],
             writes  |-> <<GmWrite(state, w.by, p, w.val, h1.subm[w.by][p], TRUE, Tail(w.rest))>>,
             hist    |-> h1]

\* The pending entry after the GM's own write succeeded.
ClearPending(pd, w) == [pd EXCEPT ![w.by][w.path] = Absent]

\* The host completes the oldest setFlag call: the changes are merged into
\* the flag, and the awaiting code goes on.
PersistOk ==
  /\ gmWrites # <<>>
  /\ LET w  == Head(gmWrites)
         a  == mergeChanges(auth, w)
         pd == IF w.own THEN ClearPending(pending, w) ELSE pending
         c  == Continue(w, a, pd, HistEnd(hist, w, TRUE))
     IN /\ auth' = a
        /\ pending' = c.pending
        /\ gmWrites' = Tail(gmWrites) \o c.writes
        /\ hist' = [c.hist EXCEPT !.intent = Settle(@, a)]
  /\ UNCHANGED <<snap, sock, nEvents, nWrites, nFails, chainVars, restVars>>

\* The host rejects the oldest setFlag call: the catch block logs, the
\* pending entry stays, and the awaiting code goes on.
PersistFail ==
  /\ gmWrites # <<>>
  /\ Head(gmWrites).changes # {}
  /\ nFails < MaxFails
  /\ nFails' = nFails + 1
  /\ LET w == Head(gmWrites)
         c == IF w.own THEN Continue(w, auth, pending, HistEnd(hist, w, FALSE))
                       ELSE [pending |-> pending, writes |-> <<>>,
                             hist |-> HistEnd(hist, w, FALSE)]
     IN /\ pending' = c.pending
        /\ gmWrites' = Tail(gmWrites) \o c.writes
        /\ hist' = c.hist
  /\ UNCHANGED <<auth, snap, sock, nEvents, nWrites, chainVars, restVars>>

\* The host's change notification reaches player o: its copy of the flag is
\* the authoritative one again.
Notify(o) ==
  /\ snap[o] # auth
  /\ snap' = [snap EXCEPT ![o] = auth]
  /\ UNCHANGED <<auth, pending, sock, gmWrites, nEvents, nWrites, nFails, hist, chainVars, restVars>>

-----------------------------------------------------------------------------
(* Part II: the chain evaluator                                            *)

MaxBonus    == 2   \* largest bonusCount of a combatant
MaxRound    == 1   \* largest combat round
RoundsShown == 1   \* the roundsShown setting
MaxFin      == 1   \* selectors with the finish-early flag
MaxPendingIdx == 1 \* latest selector a held action completed at

internalPhaseCount == 4

clamp(n, min, max) == IF n < min THEN min ELSE IF n > max THEN max ELSE n
Max0(n) == IF n < 0 THEN 0 ELSE n

\* An amount of AP in half points.
Half(ap) == 2 * ap

\* Rounding towards zero: the shortfall truncated to whole AP.
MathTrunc(h) == h \div 2

\* Math.round of a non-negative amount given in half points: x.5 goes up.
MathRound(h) == (h + 1) \div 2

\* Two entries of the default catalog: a range-cost and a fixed-cost action.
ActionKeys == {"melee", "prone-stand"}
getDefaultActions ==
  [a \in ActionKeys |->
     IF a = "melee" THEN [minCost |-> 2, maxCost |-> 4]
                    ELSE [minCost |-> 2, maxCost |-> 2]]
actionsMap == getDefaultActions
Sel == {"none"} \cup ActionKeys

\* hasBonusInPhase that hands the bonus slots out from the first slot on.
hasBonusFromFirst(phaseNumber, bonusCount) == phaseNumber <= clamp(bonusCount, 0, 4)

hasBonusInPhase(phaseNumber, bonusCount) ==
  LET threshold == 5 - clamp(bonusCount, 0, 4) IN phaseNumber >= threshold

phaseKey(round, phase, kind) == <<round, phase, kind>>

AllKeys == (1..(MaxRound + RoundsShown - 1)) \X (1..internalPhaseCount) \X {"m", "b"}

buildPhases(baseRound, roundsShown, bonusCount, phaseCount) ==
  LET pc == clamp(phaseCount, 1, 20) IN
  [n \in 1..(roundsShown * pc) |->
     LET r == (n - 1) \div pc
         p == ((n - 1) % pc) + 1
     IN [round |-> baseRound + r, phase |-> p, hasBonus |-> hasBonusInPhase(p, bonusCount)]]

\* The largest upper cost of a catalog, given as the set of its actions.
maxUpperCostOf(actions) ==
  IF actions = {} THEN 0
  ELSE Max0(CHOOSE m \in {a.maxCost : a \in actions} : \A a \in actions : a.maxCost <= m)

maxUpperCost == maxUpperCostOf({actionsMap[a] : a \in ActionKeys})

\* The first round of the analysis window and the number of rounds in it.
analysisWindow(round, roundsShown, maxC) ==
  LET lookbackRounds  == clamp((maxC + 1) \div 2, 0, 4)
      baseRound       == IF round - lookbackRounds < 1 THEN 1 ELSE round - lookbackRounds
      offsetToCurrent == round - baseRound
  IN [baseRound |-> baseRound,
      analysisRoundsShown |-> clamp(offsetToCurrent + roundsShown, 1, 9)]

\* buildPhasesForAnalysis with no bonus selector promoted.
buildPhasesByCount(round, roundsShown, bonusCount, plan) ==
  LET w == analysisWindow(round, roundsShown, maxUpperCost)
  IN buildPhases(w.baseRound, w.analysisRoundsShown, bonusCount, internalPhaseCount)

\* Prior rounds are looked back at, and a bonus selector that holds a
\* selection is promoted whatever bonusCount says.
buildPhasesForAnalysis(round, roundsShown, bonusCount, plan) ==
  LET w  == analysisWindow(round, roundsShown, maxUpperCost)
      ps == buildPhases(w.baseRound, w.analysisRoundsShown, bonusCount, internalPhaseCount)
  IN [n \in 1..Len(ps) |->
        IF plan[phaseKey(ps[n].round, ps[n].phase, "b")] # "none"
          THEN [ps[n] EXCEPT !.hasBonus = TRUE] ELSE ps[n]]

baseCap(conc) ==
  LET b == Half(1) IN IF conc THEN b \div 2 ELSE b

\* The selector keys of a phase list, main before bonus.
RECURSIVE slotKeys(_)
slotKeys(ps) ==
  IF ps = <<>> THEN <<>>
  ELSE LET ph == Head(ps) IN
       <<phaseKey(ph.round, ph.phase, "m")>>
         \o (IF ph.hasBonus THEN <<phaseKey(ph.round, ph.phase, "b")>> ELSE <<>>)
         \o slotKeys(Tail(ps))

\* budgetOf with apPerPhase not looked at.
budgetOfOne(apPerPhase) == Half(1)

\* The budget of a slot in half points: apPerPhase, or 1 AP when it is not a
\* positive number.
budgetOf(apPerPhase) == IF apPerPhase > 0 THEN Half(apPerPhase) ELSE Half(1)

\* capOfIndex with the pending key of a held action ignored.
capOfIndexNoPending(i, immediateOn, holdOn, pendingIdx, b) ==
  IF immediateOn \/ holdOn THEN b \div 2 ELSE b

\* The body of the loop of buildCapByKey: the capacity of the i-th key.
capOfIndex(i, immediateOn, holdOn, pendingIdx, b) ==
  IF immediateOn THEN b \div 2
  ELSE IF holdOn
         THEN (IF pendingIdx >= 1
                 THEN (IF i <= pendingIdx THEN b ELSE b \div 2)
                 ELSE b \div 2)
         ELSE b

\* keys.indexOf(key), counted from 1; 0 when the key is not in the list.
indexOfKey(keys, key) ==
  IF \E i \in 1..Len(keys) : keys[i] = key
    THEN CHOOSE i \in 1..Len(keys) : keys[i] = key /\ \A j \in 1..(i - 1) : keys[j] # key
    ELSE 0

\* pendingIdx: position in the key list of holdMeta.pendingKey, 0 if none.
buildCapByKey(phasesAnalysis, immediateOn, holdOn, pendingIdx) ==
  LET keys == slotKeys(phasesAnalysis)
      capAt(i) == capOfIndex(i, immediateOn, holdOn, pendingIdx, budgetOf(1))
  IN [k \in {keys[i] : i \in 1..Len(keys)} |->
        capAt(CHOOSE i \in 1..Len(keys) : keys[i] = k)]

\* capForKey of both evaluators; the calls pass apPerPhase: 1 and the
\* combatant's concentrating flag for the default.
capForKey(k) ==
  IF k \in DOMAIN capByKey THEN capByKey[k] ELSE baseCap(concentrating)

\* isPast with the current slot counting as past.
isPastOrNow(ph) == ph.round < curRound \/ (ph.round = curRound /\ ph.phase <= curPhase)

isPast(ph)    == ph.round < curRound \/ (ph.round = curRound /\ ph.phase < curPhase)
isCurrent(ph) == ph.round = curRound /\ ph.phase = curPhase
\* isFuture with no slot counting as future.
isFutureNever(ph) == FALSE

isFuture(ph)  == ~isPast(ph) /\ ~isCurrent(ph)

\* The chain variables of evaluateChainsWithPenalty as one record.
resetChain ==
  [ currentAction |-> "none", remaining |-> 0, spentAP |-> 0,
    minCost |-> 0, maxCost |-> 0, isRange |-> FALSE, spentPhaseIdxs |-> {} ]

startChain(actionKey) ==
  LET mn == Half(actionsMap[actionKey].minCost)
      mx == Half(actionsMap[actionKey].maxCost)
  IN [ currentAction |-> actionKey,
       remaining |-> IF mx > mn THEN mx ELSE mn,
       spentAP |-> 0, minCost |-> mn, maxCost |-> mx, isRange |-> mx > mn,
       spentPhaseIdxs |-> {} ]

\* markLost with nothing marked.
markLostNone(res, idxs) == res

markLost(res, idxs) ==
  [i \in 1..Len(res) |-> IF i \in idxs THEN [res[i] EXCEPT !.lost = TRUE] ELSE res[i]]

\* The result pushed for a phase before it is looked at.
NoResult == [contrib |-> 0, broke |-> FALSE, penalty |-> 0, lost |-> FALSE, expectedAction |-> ""]

\* What the last iteration did, read only by the properties:
\*   gap      a chain was being tracked and the phase contributed nothing
\*   act, acc, mn, mx   the chain the iteration worked on, and its accumulated
\*            AP after the iteration's contribution
\*   ended    the phases that had contributed to the chain the iteration ended
\*   live     the phases that have contributed to the chain still tracked
\*   marked   the iteration set a lost or a broke flag
\*   mainDone the main selector alone paid the chain off and the bonus
\*            selector of the same phase holds the same action
NoBrk ==
  [ kind |-> "idle", gap |-> FALSE, act |-> "none", acc |-> 0, mn |-> 0, mx |-> 0,
    ended |-> {}, live |-> {}, marked |-> FALSE, mainDone |-> FALSE ]

\* One iteration of the loop of evaluateChainsWithPenalty, on phase i, from
\* the chain record c0 and the results so far.
EvalPhase(c0, res, live, i) ==
  LET ph       == phases[i]
      km       == phaseKey(ph.round, ph.phase, "m")
      kb       == phaseKey(ph.round, ph.phase, "b")
      mainSel  == planActions[km]
      bonusSel == IF ph.hasBonus THEN planActions[kb] ELSE "none"
      costOf(a) == IF a \in DOMAIN actionsMap THEN actionsMap[a].maxCost ELSE 0
      start    == IF mainSel # "none" /\ costOf(mainSel) > 0 THEN mainSel
                  ELSE IF bonusSel # "none" /\ costOf(bonusSel) > 0 THEN bonusSel
                  ELSE "none"
      c1       == IF c0.currentAction = "none" /\ isPast(ph) /\ start # "none"
                    THEN startChain(start) ELSE c0
      live1    == IF c0.currentAction = "none" THEN {} ELSE live
      res1     == Append(res, NoResult)
      mainC    == IF mainSel = c1.currentAction THEN capForKey(km) ELSE 0
      bonusC   == IF ph.hasBonus /\ bonusSel = c1.currentAction THEN capForKey(kb) ELSE 0
      contrib  == mainC + bonusC
      res2     == [res1 EXCEPT ![i].contrib = contrib]
      info     == [NoBrk EXCEPT !.act = c1.currentAction, !.mn = c1.minCost, !.mx = c1.maxCost]
  IN
  IF c1.currentAction = "none"
    THEN [chain |-> c1, results |-> res1, brk |-> NoBrk]
  ELSE IF contrib <= 0
    THEN LET gap == [info EXCEPT !.gap = TRUE, !.acc = c1.spentAP, !.ended = live1] IN
         IF isFuture(ph)
           THEN [chain |-> resetChain, results |-> res2, brk |-> [gap EXCEPT !.kind = "silent"]]
         ELSE IF c1.isRange /\ c1.spentAP >= c1.minCost
           THEN [chain |-> resetChain, results |-> res2, brk |-> [gap EXCEPT !.kind = "minMet"]]
         ELSE LET lostRes == markLost(res2, c1.spentPhaseIdxs)
                  pen     == IF c1.isRange
                               THEN 0 - 25 * MathRound(Max0(c1.maxCost - c1.spentAP))
                               ELSE 0
              IN [chain |-> resetChain,
                  results |-> [lostRes EXCEPT ![i].broke = TRUE,
                                              ![i].expectedAction = c1.currentAction,
                                              ![i].penalty = pen],
                  brk |-> [gap EXCEPT !.kind = "broke"]]
  ELSE LET c2 == [c1 EXCEPT !.spentPhaseIdxs = IF isPast(ph) THEN @ \cup {i} ELSE @,
                            !.spentAP = @ + contrib,
                            !.remaining = @ - contrib]
           finMain  == mainSel = c1.currentAction /\ km \in finActs
           finBonus == ph.hasBonus /\ bonusSel = c1.currentAction /\ kb \in finActs
           paid == [info EXCEPT !.acc = c2.spentAP,
                                !.mainDone = /\ mainC > 0 /\ bonusC > 0
                                             /\ c1.remaining - mainC <= 0]
       IN IF c2.isRange /\ (finMain \/ finBonus)
            THEN [chain |-> resetChain, results |-> res2,
                  brk |-> [paid EXCEPT !.kind = "fin", !.ended = live1 \cup {i}]]
          ELSE IF c2.remaining <= 0
            THEN [chain |-> resetChain, results |-> res2,
                  brk |-> [paid EXCEPT !.kind = "complete", !.ended = live1 \cup {i}]]
          ELSE [chain |-> c2, results |-> res2,
                brk |-> [paid EXCEPT !.kind = "continue", !.live = live1 \cup {i}]]

\* A flag was set by an iteration: old and new are the results before and
\* after it.
Marked(old, new) ==
  \/ new[Len(new)].broke \/ new[Len(new)].lost
  \/ \E j \in 1..Len(old) : new[j].lost # old[j].lost \/ new[j].broke # old[j].broke

-----------------------------------------------------------------------------
(* analyzeChainsForUI                                                      *)

metaFor(actionKey) ==
  [mn |-> Half(actionsMap[actionKey].minCost), mx |-> Half(actionsMap[actionKey].maxCost)]

phaseList(j) ==
  LET ph == phases[j]
      km == phaseKey(ph.round, ph.phase, "m")
      kb == phaseKey(ph.round, ph.phase, "b")
  IN [ph |-> ph, km |-> km, kb |-> kb,
      mainSel  |-> planActions[km],
      bonusSel |-> IF ph.hasBonus THEN planActions[kb] ELSE "none"]

\* allActions in the order of the Set: first appearance, main before bonus.
RECURSIVE allActions(_)
allActions(j) ==
  IF j = 0 THEN <<>>
  ELSE LET before == allActions(j - 1)
           seen(sq, a) == \E n \in 1..Len(sq) : sq[n] = a
           add(sq, a)  == IF a = "none" \/ seen(sq, a) THEN sq ELSE Append(sq, a)
       IN add(add(before, phaseList(j).mainSel), phaseList(j).bonusSel)

\* The sets and maps the function returns, with the per-action chain
\* variables, and for the properties: acc, the accumulated AP of the chain
\* after each key's contribution, and ends, the last contributing key of each
\* chain that a gap ended short of its target.
NoUI ==
  [ done |-> FALSE, invalid |-> {}, complete |-> {},
    purple |-> [k \in AllKeys |-> 0], need |-> [k \in AllKeys |-> "none"],
    chainActive |-> FALSE, chainStartPh |-> 0, chainEndPh |-> 0,
    contributedKeys |-> {}, spentAP |-> 0,
    lastKey |-> <<>>, acc |-> [k \in AllKeys |-> 0], ends |-> {} ]

\* uiResetChain with the reset left out.
uiKeepChain(st) == st

uiResetChain(st) ==
  [st EXCEPT !.chainActive = FALSE, !.chainStartPh = 0, !.chainEndPh = 0,
             !.contributedKeys = {}, !.spentAP = 0]

uiStartChain(st, j) ==
  [st EXCEPT !.chainActive = TRUE, !.chainStartPh = j, !.chainEndPh = j,
             !.contributedKeys = {}, !.spentAP = 0]

\* markCurrentPhase with the marking left out.
markCurrentNone(actionKey, st) == st

\* The marking of the current phase's selectors when a chain broke right
\* before it.
markCurrentPhase(actionKey, st) ==
  LET curs == {j \in 1..Len(phases) : isCurrent(phases[j])} IN
  IF curs = {} THEN st
  ELSE LET cur == phaseList(CHOOSE j \in curs : \A q \in curs : j <= q)
           curMain  == cur.mainSel
           curBonus == IF cur.ph.hasBonus THEN cur.bonusSel ELSE "none"
           continues == curMain = actionKey \/ (cur.ph.hasBonus /\ curBonus = actionKey)
       IN IF continues THEN st
          ELSE [st EXCEPT
                 !.need = [k \in AllKeys |->
                             IF k = cur.km \/ (cur.ph.hasBonus /\ k = cur.kb)
                               THEN actionKey ELSE @[k]],
                 !.invalid = @
                   \cup (IF curMain # "none" /\ curMain # actionKey THEN {cur.km} ELSE {})
                   \cup (IF cur.ph.hasBonus /\ curBonus # "none" /\ curBonus # actionKey
                           THEN {cur.kb} ELSE {})
                   \cup (IF curMain = "none" /\ (~cur.ph.hasBonus \/ curBonus = "none")
                           THEN {cur.km} ELSE {})]

\* byGap: called for a phase without the action (not at the end of the list).
finalizeIncompleteChain(actionKey, st, byGap) ==
  LET m == metaFor(actionKey)
      targetAP == m.mx
      endPh   == phases[st.chainEndPh]
      startPh == phases[st.chainStartPh]
      minMet  == IF m.mx > m.mn THEN st.spentAP >= m.mn ELSE FALSE
      endIsImmediatelyBeforeCurrent ==
        \/ endPh.round = curRound /\ endPh.phase = curPhase - 1
        \/ curPhase = 1 /\ endPh.round = curRound - 1 /\ endPh.phase = 4
      st1 == IF byGap THEN [st EXCEPT !.ends = @ \cup {st.lastKey}] ELSE st
  IN
  IF ~st.chainActive THEN st
  ELSE IF st.spentAP >= targetAP THEN uiResetChain(st)
  ELSE IF isPast(startPh) /\ isPast(endPh) /\ ~minMet
    THEN LET inv == [st1 EXCEPT !.invalid = @ \cup st.contributedKeys] IN
         uiResetChain(IF endIsImmediatelyBeforeCurrent
                        THEN markCurrentPhase(actionKey, inv) ELSE inv)
  ELSE uiResetChain(st1)

applyContribution(actionKey, key, j, st) ==
  LET m  == metaFor(actionKey)
      targetAP == m.mx
      sp == st.spentAP + capForKey(key)
      s1 == [st EXCEPT !.chainEndPh = j, !.spentAP = sp,
                       !.contributedKeys = IF isPast(phases[j]) \/ isCurrent(phases[j])
                                             THEN @ \cup {key} ELSE @,
                       !.lastKey = key, !.acc = [@ EXCEPT ![key] = sp]]
      steps == MathRound(Max0(m.mx - sp))
      pen   == IF sp >= m.mn /\ steps > 0 THEN 0 - 25 * steps ELSE 0
      s2 == [s1 EXCEPT !.purple = [@ EXCEPT ![key] = pen]]
  IN
  IF m.mx > m.mn /\ key \in finActs
    THEN uiResetChain([s2 EXCEPT !.complete = @ \cup {key}])
  ELSE LET s3 == IF m.mx > m.mn THEN s2 ELSE s1 IN
       IF sp >= targetAP THEN uiResetChain([s3 EXCEPT !.complete = @ \cup {key}])
       ELSE s3

RECURSIVE applyKeys(_, _, _, _)
applyKeys(actionKey, keys, j, st) ==
  IF keys = <<>> THEN st
  ELSE LET s0 == IF ~st.chainActive THEN uiStartChain(st, j) ELSE st IN
       applyKeys(actionKey, Tail(keys), j, applyContribution(actionKey, Head(keys), j, s0))

\* The scan of the phase list for one action, from phase j on.
RECURSIVE scanAction(_, _, _)
scanAction(actionKey, j, st) ==
  IF j > Len(phases) THEN finalizeIncompleteChain(actionKey, st, FALSE)
  ELSE LET p == phaseList(j)
           keys == (IF p.mainSel = actionKey THEN <<p.km>> ELSE <<>>)
                     \o (IF p.ph.hasBonus /\ p.bonusSel = actionKey THEN <<p.kb>> ELSE <<>>)
       IN IF keys = <<>>
            THEN scanAction(actionKey, j + 1, finalizeIncompleteChain(actionKey, st, TRUE))
            ELSE scanAction(actionKey, j + 1, applyKeys(actionKey, keys, j, st))

RECURSIVE scanActions(_, _)
scanActions(as, st) ==
  IF as = <<>> THEN st
  ELSE scanActions(Tail(as),
         IF Head(as) \notin DOMAIN actionsMap \/ metaFor(Head(as)).mx <= 0 THEN st
         ELSE scanAction(Head(as), 1, uiResetChain(st)))

analyzeChainsForUI ==
  LET st == scanActions(allActions(Len(phases)), NoUI)
      labelled == {k \in AllKeys : st.purple[k] # 0}
  IN [st EXCEPT !.done = TRUE, !.invalid = (@ \ st.complete) \ labelled]

LoopIdle ==
  /\ idx = 0 /\ currentAction = "none" /\ remaining = 0 /\ spentAP = 0
  /\ minCost = 0 /\ maxCost = 0 /\ isRange = FALSE
  /\ spentPhaseIdxs = {} /\ results = <<>> /\ brk = NoBrk /\ ui = NoUI

\* No plan is being evaluated.
ChainIdle ==
  /\ phases = <<>> /\ planActions = [k \in AllKeys |-> "none"]
  /\ capByKey = <<>> /\ finActs = {} /\ concentrating = FALSE
  /\ curRound = 1 /\ curPhase = 1
  /\ LoopIdle

-----------------------------------------------------------------------------
(* Specification Spec: the replication protocol                            *)

ReplIdle ==
  /\ auth = NoState
  /\ snap = [o \in Players |-> NoState]
  /\ pending = [o \in Observers |-> NoPending]
  /\ sock = [o \in Players |-> <<>>]
  /\ gmWrites = <<>>
  /\ nEvents = 0
  /\ nWrites = 0
  /\ nFails = 0
  /\ hist = NoHist

-----------------------------------------------------------------------------
(* Part IV: movement of one token, on the client of the user who moves it  *)
(* Distances are in hundredths of a foot.  Positions lie on one line and   *)
(* are kept relative to the token's position.                              *)

MaxMvRound  == 2   \* largest combat round of a movement run
MaxInflight == 2   \* token updates that are awaiting the host
MaxReq      == 2   \* position requests of a run

MOVE_ACTION_KEY == "move-bmr"
MOVE_EPS_FT == 5

Ft(n) == 100 * n

MathMin(a, b) == IF a <= b THEN a ELSE b

\* _movementBlock.bmr of the actors, the segments a user asks for, and the
\* grid distance of the scenes (0 = gridless).
Bmrs  == {Ft(16)}
Reqs  == {Ft(10), Ft(20)}
Grids == {0, Ft(5)}

\* An actor: bmr, what is known of its load, the per-phase feet of its Dash
\* pace row (0 = no row), the maxPace of its movement option, whether the
\* instantaneous action is available, and how many concentration flags are on.
MovementOptions ==
  { [dashPer |-> Ft(32), maxPace |-> "none"], [dashPer |-> 0, maxPace |-> "none"],
    [dashPer |-> 0, maxPace |-> "Walk"] }

\* An actor whose movement block gives no BMR: getActorPaceRates returns
\* bmrPerPhase 0 and no pace rows.
NoBmrActor == [bmr |-> 0, load |-> "unknown", dashPer |-> 0, maxPace |-> "none",
               instant |-> TRUE, concOn |-> 0]

Actors ==
  { [bmr |-> b, load |-> l, dashPer |-> o.dashPer, maxPace |-> o.maxPace,
     instant |-> i, concOn |-> c] :
      b \in Bmrs, l \in {"light", "heavy", "unknown"}, o \in MovementOptions,
      i \in BOOLEAN, c \in 0..2 }
  \cup {NoBmrActor}

MvKeys == (1..MaxMvRound) \X (1..internalPhaseCount) \X {"m", "b"}

incKey(r, s, e) == <<"i", r, s, e>>

\* The keys of usedBySlot: the selector keys, and one key for the incidental
\* movement of each slot group.
UsageKeys ==
  MvKeys \cup {incKey(r, g[1], g[2]) : r \in 1..MaxMvRound,
                 g \in {<<1, 1>>, <<2, 2>>, <<3, 3>>, <<4, 4>>, <<1, 2>>, <<3, 4>>}}

usedAt(used, k) == IF k \in UsageKeys THEN used[k] ELSE 0

NoUsage == [k \in UsageKeys |-> 0]

RECURSIVE SumUsed(_, _)
SumUsed(used, S) ==
  IF S = {} THEN 0
  ELSE LET k == CHOOSE q \in S : TRUE IN used[k] + SumUsed(used, S \ {k})

getCurrentInternalSlotRange(phase, spr) ==
  LET s == clamp(((phase - 1) * spr) + 1, 1, internalPhaseCount)
  IN [start |-> s, end |-> clamp(s + spr - 1, 1, internalPhaseCount)]

getPrevActionPhaseRange(r, s, e, slotsPerReal, internalCount) ==
  LET spr == clamp(slotsPerReal, 1, 4)
      ic  == clamp(internalCount, 1, 99)
  IN IF ~(r >= 1) THEN [round |-> 0, start |-> 1, end |-> 1]
     ELSE IF s - spr >= 1 THEN [round |-> r, start |-> s - spr, end |-> e - spr]
     ELSE IF r - 1 < 1 THEN [round |-> 0, start |-> 1, end |-> 1]
     ELSE [round |-> r - 1, start |-> clamp(ic - spr + 1, 1, ic), end |-> ic]

sumMovementForInternalRange(used, r, s, e) ==
  IF ~(r > 0) \/ ~(s > 0) \/ ~(e > 0) \/ e < s THEN 0
  ELSE SumUsed(used, {k \in MvKeys : k[1] = r /\ k[2] \in s..e}) + usedAt(used, incKey(r, s, e))

\* The keys that start with "r<round>p".
getRoundTotal(used, round) == SumUsed(used, {k \in MvKeys : k[1] = round})

\* Twice the multiplier of a pace label, 0 for no label.
paceMultiplierForLabel(pace) ==
  CASE pace = "Creep"  -> 1
    [] pace = "Walk"   -> 2
    [] pace = "Jog"    -> 4
    [] pace = "Run"    -> 6
    [] pace = "Sprint" -> 8
    [] pace = "Dash"   -> 10
    [] OTHER           -> 0

\* capMultiplierForBmrTable that leaves the pace label out.
capMultiplierOfDash(dashOk, maxPaceLabel) == IF dashOk THEN 10 ELSE 8

\* Twice the multiplier of the round cap.
capMultiplierForBmrTable(dashOk, maxPaceLabel) ==
  LET capMult == IF dashOk THEN 10 ELSE 8
      m       == paceMultiplierForLabel(maxPaceLabel)
  IN IF m > 0 /\ ~(dashOk /\ m = 8) THEN MathMin(capMult, m) ELSE capMult

\* inferPaceFromBmrTable with every band allowed.
inferPaceAnyBand(distTotal, bmr, dashOk, maxPaceLabel) ==
  LET fits == {m \in {1, 2, 4, 6, 8, 10} : 2 * distTotal <= bmr * m + 2 * MOVE_EPS_FT}
      pick == IF fits # {} THEN CHOOSE m \in fits : \A q \in fits : m <= q ELSE 10
  IN IF distTotal <= 0 \/ bmr <= 0 THEN "Walk"
     ELSE CASE pick = 1 -> "Creep" [] pick = 2 -> "Walk" [] pick = 4 -> "Jog"
            [] pick = 6 -> "Run"   [] pick = 8 -> "Sprint" [] OTHER -> "Dash"

\* The band of a round total.
inferPaceFromBmrTable(distTotal, bmr, dashOk, maxPaceLabel) ==
  LET capMult == capMultiplierForBmrTable(dashOk, maxPaceLabel)
      bands   == {m \in {1, 2, 4, 6, 8, 10} : m <= capMult}
      fits    == {m \in bands : 2 * distTotal <= bmr * m + 2 * MOVE_EPS_FT}
      pick    == IF fits # {} THEN CHOOSE m \in fits : \A q \in fits : m <= q
                 ELSE CHOOSE m \in bands : \A q \in bands : q <= m
  IN IF distTotal <= 0 \/ bmr <= 0 THEN "Walk"
     ELSE IF capMult <= 1 THEN "Creep"
     ELSE CASE pick = 1 -> "Creep" [] pick = 2 -> "Walk" [] pick = 4 -> "Jog"
            [] pick = 6 -> "Run"   [] pick = 8 -> "Sprint" [] OTHER -> "Dash"

isDashEligibleByLoad(a) == a.load # "heavy"

inferLightLoadFromMovementOption(a) == a.maxPace = "Dash" \/ a.dashPer > 0

isLightLoadAtMost15(a) ==
  IF a.load = "unknown" THEN inferLightLoadFromMovementOption(a) ELSE a.load = "light"

\* The per-phase feet of the allowed Dash row of getActorPaceRates, 0 when
\* the rates hold none.
dashRate(a) ==
  IF a.dashPer > 0 /\ isDashEligibleByLoad(a) /\ a.maxPace \in {"none", "Dash"}
    THEN a.dashPer ELSE 0

\* The selector keys of the current slot group, main before bonus.
groupKeys(round, rng) ==
  [n \in 1..(2 * (rng.end - rng.start + 1)) |->
     phaseKey(round, rng.start + ((n - 1) \div 2), IF n % 2 = 1 THEN "m" ELSE "b")]

isMoveKey(plan, k) == plan[k] = MOVE_ACTION_KEY

getMoveSlotsForActor(plan, round, rng) ==
  LET ks == groupKeys(round, rng)
      moveAt == {n \in 1..Len(ks) : isMoveKey(plan, ks[n])}
      RECURSIVE pick(_)
      pick(n) == IF n > Len(ks) THEN <<>>
                 ELSE IF n \in moveAt THEN <<ks[n]>> \o pick(n + 1) ELSE pick(n + 1)
  IN [moveSlotKeys |-> pick(1),
      movementDisabled |-> \A n \in 1..Len(ks) : plan[ks[n]] = "none"]

\* allocateAcrossSlots that hands out to the first slot alone and reports the
\* rest as overflow.
allocateToFirstSlot(moveSlotKeys, used, segmentFt, perSlotMax) ==
  IF moveSlotKeys = <<>>
    THEN [allocations |-> NoUsage, overflow |-> Max0(segmentFt)]
    ELSE LET k    == Head(moveSlotKeys)
             take == Max0(MathMin(Max0(perSlotMax[k] - used[k]), segmentFt))
         IN [allocations |-> [NoUsage EXCEPT ![k] = take],
             overflow |-> Max0(segmentFt - take)]

RECURSIVE allocateAcrossSlots(_, _, _, _)
allocateAcrossSlots(moveSlotKeys, used, segmentFt, perSlotMax) ==
  IF moveSlotKeys = <<>>
    THEN [allocations |-> NoUsage, overflow |-> Max0(segmentFt)]
    ELSE LET k    == Head(moveSlotKeys)
             cap  == Max0(perSlotMax[k] - used[k])
             take == MathMin(cap, segmentFt)
         IN IF cap <= 0 \/ ~(take > 0)
              THEN allocateAcrossSlots(Tail(moveSlotKeys), used, segmentFt, perSlotMax)
              ELSE IF segmentFt - take <= 0
                THEN [allocations |-> [NoUsage EXCEPT ![k] = take],
                      overflow |-> Max0(segmentFt - take)]
                ELSE LET rest == allocateAcrossSlots(Tail(moveSlotKeys), used,
                                                     segmentFt - take, perSlotMax)
                     IN [allocations |-> [rest.allocations EXCEPT ![k] = @ + take],
                         overflow |-> rest.overflow]

\* canvas.grid.getSnappedPosition on a line: the nearest grid point, a half
\* rounded up; a gridless scene does not snap.
getSnappedPosition(x, grid) ==
  IF grid = 0 THEN x ELSE ((2 * x + grid) \div (2 * grid)) * grid

Abs(x) == IF x < 0 THEN -x ELSE x

\* Eighths of the effective BMR an incidental move may cover.
phasePaceCapFrac(pace) ==
  CASE pace = "Creep" -> 1 [] pace = "Walk" -> 2 [] pace = "Jog" -> 4 [] OTHER -> 6

computeIncidentalCapPace(loadMaxPaceLabel, concOnCount) ==
  IF concOnCount >= 2 THEN "Creep"
  ELSE IF loadMaxPaceLabel \in {"Creep", "Walk", "Jog"} THEN loadMaxPaceLabel
  ELSE "Run"

\* PHASE_PACE_TABLE, the fractions in eighths.
PHASE_PACE_TABLE ==
  << [pace |-> "Creep", frac |-> 1, penalty |-> 0],
     [pace |-> "Walk",  frac |-> 2, penalty |-> -25],
     [pace |-> "Jog",   frac |-> 4, penalty |-> -50],
     [pace |-> "Run",   frac |-> 6, penalty |-> -75] >>

\* Position of a pace in the table, counted from 1.
phasePaceIndex(p) ==
  CASE p = "Creep" -> 1 [] p = "Walk" -> 2 [] p = "Jog" -> 3 [] OTHER -> 4

\* inferPhasePacePenalty that reports the cap pace whatever the distance.
inferPhasePaceOfCap(usedFt, bmrEffective, capPace) ==
  [pace |-> PHASE_PACE_TABLE[phasePaceIndex(capPace)].pace,
   penalty |-> PHASE_PACE_TABLE[phasePaceIndex(capPace)].penalty]

\* The pace and the penalty shown for the feet used in a slot group by
\* incidental movement.
inferPhasePacePenalty(usedFt, bmrEffective, capPace) ==
  LET u == Max0(usedFt)
      b == Max0(bmrEffective)
      capIdx == phasePaceIndex(capPace)
      fits == {i \in 1..capIdx : 8 * u <= PHASE_PACE_TABLE[i].frac * b + 8 * MOVE_EPS_FT}
      row == IF fits # {} THEN PHASE_PACE_TABLE[CHOOSE i \in fits : \A q \in fits : i <= q]
             ELSE PHASE_PACE_TABLE[capIdx]
  IN IF ~(b > 0) THEN [pace |-> "-", penalty |-> 0]
     ELSE [pace |-> row.pace, penalty |-> row.penalty]

NoPhaseKey == <<0, 0, 0>>

\* _moveTrack holds no entry for the token.
NoTrack == [exists |-> FALSE, phaseKey |-> NoPhaseKey, lastCenter |-> "null",
            usedBySlot |-> NoUsage]

\* _prevPhaseCarry holds no entry for the token.
NoCarry == [round |-> 0, start |-> 0, end |-> 0, totalFt |-> 0]

NoMove == [kind |-> "none", mode |-> "none", segmentFt |-> 0, dir |-> 0,
           round |-> 0, start |-> 0, end |-> 0,
           moveSlotKeys |-> <<>>, perSlotMax |-> NoUsage,
           prevMovedFt |-> 0, moveBoostActive |-> FALSE, canDashThisLastSlot |-> FALSE,
           capTotalFt |-> 0, roundTotalBefore |-> 0, groupUsedBefore |-> 0,
           allocatedTotal |-> 0, allocations |-> NoUsage, delta |-> 0, actualFt |-> 0,
           pace |-> "none", issued |-> FALSE, prevGroupMoved |-> 0]

\* The track as preUpdateToken leaves it before it measures the segment.
resetMoveTrackForToken(tr, phaseKeyId) ==
  IF ~tr.exists
    THEN [exists |-> TRUE, phaseKey |-> phaseKeyId, lastCenter |-> "set",
          usedBySlot |-> NoUsage]
    ELSE [tr EXCEPT !.phaseKey = phaseKeyId, !.lastCenter = "set"]

\* The 1.25x rule: total movement of the previous action phase, from the
\* track or else from the carryover snapshot.
prevMovedFtOf(used, snapshot, prev) ==
  LET inTrack == IF prev.round >= 1
                   THEN sumMovementForInternalRange(used, prev.round, prev.start, prev.end)
                   ELSE 0
  IN IF inTrack <= MOVE_EPS_FT /\ prev.round >= 1
          /\ snapshot.round = prev.round /\ snapshot.start = prev.start
          /\ snapshot.end = prev.end
       THEN snapshot.totalFt ELSE inTrack

boostWhateverMoved(lightLoadOk, prevMovedEnough, concOnCount) ==
  lightLoadOk /\ concOnCount = 0

canUseMoveBoost(lightLoadOk, prevMovedEnough, concOnCount) ==
  lightLoadOk /\ prevMovedEnough /\ concOnCount = 0

dashWhateverInstant(a, plan, round, rngEnd) ==
  /\ a.concOn < 2 /\ dashRate(a) > 0 /\ isDashEligibleByLoad(a)
  /\ \/ plan[phaseKey(round, internalPhaseCount, "m")] = MOVE_ACTION_KEY
     \/ plan[phaseKey(round, internalPhaseCount, "b")] = MOVE_ACTION_KEY
  /\ rngEnd = internalPhaseCount

canDashThisLastSlot(a, plan, round, rngEnd) ==
  /\ a.concOn < 2 /\ a.instant /\ dashRate(a) > 0 /\ isDashEligibleByLoad(a)
  /\ \/ plan[phaseKey(round, internalPhaseCount, "m")] = MOVE_ACTION_KEY
     \/ plan[phaseKey(round, internalPhaseCount, "b")] = MOVE_ACTION_KEY
  /\ rngEnd = internalPhaseCount

moveBaseCapFull(a) == a.bmr

\* baseCap of mode A: BMR, or half of it under one flag or more.
moveBaseCap(a) == IF a.concOn >= 1 THEN a.bmr \div 2 ELSE a.bmr

\* The caps of the move slots of the group: perSlotMax and normalPerSlotCap.
perSlotCaps(a, moveSlotKeys, boost, dash) ==
  LET dashScale == IF a.concOn = 1 THEN 1 ELSE 2   \* in halves
      isLast(k) == k \in MvKeys /\ k[2] = internalPhaseCount
      inGroup   == {moveSlotKeys[n] : n \in 1..Len(moveSlotKeys)}
      normal(k) == IF dash /\ isLast(k) THEN (dashRate(a) * dashScale) \div 2
                   ELSE moveBaseCap(a)
      max(k)    == IF dash /\ isLast(k) THEN normal(k)
                   ELSE IF boost THEN (normal(k) * 5) \div 4 ELSE normal(k)
  IN [perSlotMax |-> [k \in UsageKeys |-> IF k \in inGroup THEN max(k) ELSE 0],
      normalPerSlotCap |-> [k \in UsageKeys |-> IF k \in inGroup THEN normal(k) ELSE 0]]

\* The round cap of mode A.
capTotalFtOf(a) ==
  LET bmrBaseTotal     == IF a.concOn = 1 THEN a.bmr \div 2 ELSE a.bmr
      maxPaceLabelUsed == IF a.concOn >= 2 THEN "Creep" ELSE a.maxPace
      dashOkTotal      == a.concOn < 2 /\ a.instant /\ isLightLoadAtMost15(a)
  IN (capMultiplierForBmrTable(dashOkTotal, maxPaceLabelUsed) * bmrBaseTotal) \div 2

\* The position a shortened request is moved to.

clampAlongDrag(allowedFt, dir, grid) == getSnappedPosition(dir * allowedFt, grid)

\* allocations scaled to the distance of the snapped move.
scaleAllocations(allocations, allocatedTotal, actualFt) ==
  IF actualFt >= allocatedTotal THEN allocations
  ELSE [k \in UsageKeys |-> (allocations[k] * actualFt) \div allocatedTotal]

\* Mode A of preUpdateToken: the current group holds a move selection.
moveModeA(a, grid, plan, cmb, tr, snapshot, segmentFt, dir) ==
  LET rng   == getCurrentInternalSlotRange(cmb.phase, cmb.spr)
      keys  == getMoveSlotsForActor(plan, cmb.round, rng).moveSlotKeys
      used  == tr.usedBySlot
      prev  == getPrevActionPhaseRange(cmb.round, rng.start, rng.end,
                                       clamp(cmb.spr, 1, 4), internalPhaseCount)
      prevMovedFt == prevMovedFtOf(used, snapshot, prev)
      effectiveBmrForThreshold == IF a.concOn = 1 THEN a.bmr \div 2 ELSE a.bmr
      prevMovedEnough == 2 * prevMovedFt >= effectiveBmrForThreshold - 2 * MOVE_EPS_FT
      boost == canUseMoveBoost(isLightLoadAtMost15(a), prevMovedEnough, a.concOn)
      dash  == canDashThisLastSlot(a, plan, cmb.round, rng.end)
      caps  == perSlotCaps(a, keys, boost, dash)
      roundTotalBefore == getRoundTotal(used, cmb.round)
      capTotalFt       == capTotalFtOf(a)
      remainingTotalFt == capTotalFt - roundTotalBefore
      segmentFtAllowed == MathMin(segmentFt, Max0(remainingTotalFt))
      totalCapClamped  == segmentFt - segmentFtAllowed > MOVE_EPS_FT
      al    == allocateAcrossSlots(keys, used, segmentFtAllowed, caps.perSlotMax)
      allocatedTotal == SumUsed(al.allocations, MvKeys)
      clamped == al.overflow > MOVE_EPS_FT \/ totalCapClamped
      delta == IF clamped THEN clampAlongDrag(allocatedTotal, dir, grid)
               ELSE dir * segmentFt
      actualFt == Abs(delta)
      base  == [NoMove EXCEPT !.mode = "move", !.segmentFt = segmentFt, !.dir = dir,
                  !.round = cmb.round, !.start = rng.start, !.end = rng.end,
                  !.moveSlotKeys = keys, !.perSlotMax = caps.perSlotMax,
                  !.prevMovedFt = prevMovedFt, !.moveBoostActive = boost,
                  !.canDashThisLastSlot = dash, !.capTotalFt = capTotalFt,
                  !.roundTotalBefore = roundTotalBefore,
                  !.groupUsedBefore =
                     SumUsed(used, {keys[n] : n \in 1..Len(keys)})]
  IN IF remainingTotalFt <= MOVE_EPS_FT THEN [base EXCEPT !.kind = "cap-load"]
     ELSE IF allocatedTotal <= 0
       THEN [base EXCEPT !.kind = "limit"]
     ELSE IF clamped
       THEN [base EXCEPT !.kind = "clamped", !.allocatedTotal = allocatedTotal,
               !.allocations = scaleAllocations(al.allocations, allocatedTotal, actualFt),
               !.delta = delta, !.actualFt = actualFt]
     ELSE [base EXCEPT !.kind = "accepted", !.allocatedTotal = allocatedTotal,
               !.allocations = al.allocations, !.delta = delta, !.actualFt = actualFt]

\* Mode B of preUpdateToken: the group holds selections, none of them a move.
moveModeB(a, grid, cmb, tr, segmentFt, dir) ==
  LET rng     == getCurrentInternalSlotRange(cmb.phase, cmb.spr)
      capPace == computeIncidentalCapPace(a.maxPace, a.concOn)
      bmrEffective == IF a.concOn = 1 THEN a.bmr \div 2 ELSE a.bmr
      capFt   == Max0((bmrEffective * phasePaceCapFrac(capPace)) \div 8)
      k       == incKey(cmb.round, rng.start, rng.end)
      usedBefore == tr.usedBySlot[k]
      remainingFt == capFt - usedBefore
      allowed == MathMin(segmentFt, Max0(remainingFt))
      overflow == Max0(segmentFt - allowed)
      clamped == overflow > MOVE_EPS_FT
      delta   == IF clamped THEN clampAlongDrag(allowed, dir, grid) ELSE dir * segmentFt
      actualFt == Abs(delta)
      base    == [NoMove EXCEPT !.mode = "incidental", !.segmentFt = segmentFt,
                    !.dir = dir, !.round = cmb.round, !.start = rng.start,
                    !.end = rng.end, !.groupUsedBefore = usedBefore,
                    !.perSlotMax = [NoUsage EXCEPT ![k] = capFt],
                    !.roundTotalBefore = getRoundTotal(tr.usedBySlot, cmb.round)]
  IN IF ~(capFt > 0) \/ remainingFt <= MOVE_EPS_FT \/ allowed <= 0
       THEN [base EXCEPT !.kind = "cap-phase"]
     ELSE IF clamped
       THEN [base EXCEPT !.kind = "clamped", !.allocatedTotal = allowed,
               !.allocations = [NoUsage EXCEPT ![k] = Max0(MathMin(allowed, actualFt))],
               !.delta = delta, !.actualFt = actualFt]
     ELSE [base EXCEPT !.kind = "accepted", !.allocatedTotal = allowed,
               !.allocations = [NoUsage EXCEPT ![k] = allowed],
               !.delta = delta, !.actualFt = actualFt]

\* preUpdateToken of a position change by the moving user: what it decides
\* and the track it leaves.
preUpdateToken(a, grid, plan, cmb, tr, snapshot, segmentFt, dir) ==
  LET rng == getCurrentInternalSlotRange(cmb.phase, cmb.spr)
      ms  == getMoveSlotsForActor(plan, cmb.round, rng)
      tr1 == resetMoveTrackForToken(tr, <<cmb.round, rng.start, rng.end>>)
  IN IF ms.movementDisabled
       THEN [out |-> [NoMove EXCEPT !.kind = "disabled", !.segmentFt = segmentFt,
                        !.dir = dir, !.round = cmb.round, !.start = rng.start,
                        !.end = rng.end],
             track |-> tr]
     ELSE IF a.bmr <= 0
       THEN [out |-> [NoMove EXCEPT !.kind = "unenforced", !.segmentFt = segmentFt,
                        !.dir = dir, !.round = cmb.round, !.start = rng.start,
                        !.end = rng.end, !.delta = dir * segmentFt,
                        !.actualFt = segmentFt],
             track |-> tr1]
     ELSE IF Len(ms.moveSlotKeys) > 0
       THEN [out |-> moveModeA(a, grid, plan, cmb, tr1, snapshot, segmentFt, dir),
             track |-> tr1]
     ELSE [out |-> moveModeB(a, grid, cmb, tr1, segmentFt, dir), track |-> tr1]

\* No movement is going on.
MoveIdle ==
  /\ actor = [bmr |-> Ft(16), load |-> "light", dashPer |-> 0, maxPace |-> "none",
              instant |-> TRUE, concOn |-> 0]
  /\ scene = 0
  /\ mvPlan = [k \in MvKeys |-> "none"]
  /\ combat = [round |-> 1, phase |-> 1, spr |-> 1]
  /\ track = NoTrack /\ carry = NoCarry /\ inflight = <<>> /\ mvLast = NoMove
  /\ nReq = 0 /\ moved = NoUsage


-----------------------------------------------------------------------------
(* Part V: the concentration-type flags                                    *)

MaxClicks == 3      \* UI events in a run

ConcFlagKeys == {"concentration", "holdPosition", "partialDodgeBlock",
                 "spellPreparation", "holdAction"}

\* A _pending map without an entry for the path concFlags.
NoEntry == {"-"}

\* normalizeConcFlags: the five keys as booleans; a set holds the true ones.
normalizeConcFlags(f) == f \cap ConcFlagKeys

countConcOn(flags) == Cardinality(flags \cap ConcFlagKeys)

\* state.combatants[cid].concFlags as the toggle handler and getData read
\* it: the raw flag for the GM, the flag under the pending entries for a
\* player.
concView(o, cid) ==
  IF o = Holder THEN concFlags[cid]
  ELSE IF concPending[o][cid] # NoEntry THEN concPending[o][cid]
  ELSE concSnap[o][cid]

\* The same through getStateForRead: pending applied for everyone.
concStateForRead(o, cid) ==
  IF concPending[o][cid] # NoEntry THEN concPending[o][cid]
  ELSE IF o = Holder THEN concFlags[cid] ELSE concSnap[o][cid]

\* The paths one accepted toggle writes, in this order, up to concFlags.
\* (The write of holdAction follows it and does not touch the flags.)
togglePaths(currentOn, nextOnCount) ==
  (IF (nextOnCount = 1 /\ currentOn = 0) \/ (nextOnCount = 0 /\ currentOn > 0)
     THEN <<"mentalFocusStartRound", "mentalFocusAckRound">> ELSE <<>>)
  \o <<"concFlags">>

\* setFlag with the clone in which `path` was set to `value`: the update
\* carries the keys of concFlags that differ from the GM's copy of the
\* document, and the host merges them into the document.
concSetFlag(doc, cid, path, value, own, rest) ==
  [ cid |-> cid, path |-> path, value |-> value, own |-> own, rest |-> rest,
    on  |-> IF path = "concFlags" THEN value \ doc[cid] ELSE {},
    off |-> IF path = "concFlags" THEN doc[cid] \ value ELSE {} ]

concMerge(doc, w) == [doc EXCEPT ![w.cid] = (@ \ w.off) \cup w.on]

NoClick == [kind |-> "none", by |-> Holder, cid |-> "npc", flag |-> "concentration",
            view |-> {}, value |-> {}, group |-> "blank", paths |-> <<>>]

\* toggleKind without the test of the current slot group.
toggleKindAnyGroup(readOnly, nextIsOn, flag, currentOn, group) ==
  IF readOnly THEN "read-only"
  ELSE IF nextIsOn /\ currentOn >= 2 THEN "cap"
  ELSE IF flag = "holdAction" /\ nextIsOn /\ group # "complete" THEN "not-complete"
  ELSE "written"

\* The checks of the toggle handler, in their order: what the click ends in.
toggleKind(readOnly, nextIsOn, flag, currentOn, group) ==
  IF readOnly THEN "read-only"
  ELSE IF nextIsOn /\ flag # "holdAction" /\ group # "blank" THEN "not-blank"
  ELSE IF nextIsOn /\ currentOn >= 2 THEN "cap"
  ELSE IF flag = "holdAction" /\ nextIsOn /\ group # "complete" THEN "not-complete"
  ELSE "written"

ConcIdle ==
  /\ concFlags = [cid \in Combatants |-> {}]
  /\ concSnap = [o \in Players |-> [cid \in Combatants |-> {}]]
  /\ concPending = [o \in Observers |-> [cid \in Combatants |-> NoEntry]]
  /\ concSock = [o \in Players |-> <<>>]
  /\ concWrites = <<>>
  /\ curGroup = [cid \in Combatants |-> "blank"]
  /\ nClicks = 0
  /\ concLast = NoClick

-----------------------------------------------------------------------------
(* Part VI: the slot capacities                                            *)

MaxAp == 2          \* largest apPerPhase passed to buildCapByKey

\* holdMeta.pendingKey of a combatant that holds no action.
NoKey == <<0, 0, "-">>

NoCapIn  == [flags |-> {}, pendingKey |-> NoKey, bonusCount |-> 0, apPerPhase |-> 1]
NoCapOut == [done |-> FALSE, keys |-> <<>>, cap |-> <<>>]

CapIdle == capIn = NoCapIn /\ capOut = NoCapOut

-----------------------------------------------------------------------------
(* Part VII: the movement hooks on two clients                             *)

MaxObs == 4         \* user events in a run

\* Two users who may both move the token of the current combatant.
Users == {"u1", "u2"}

NoObs == [kind |-> "none", by |-> "u1", segmentFt |-> 0, delta |-> 0]

ObsIdle ==
  /\ rendered = [u \in Users |-> FALSE]
  /\ tracks = [u \in Users |-> NoTrack]
  /\ preview = [u \in Users |-> FALSE]
  /\ updates = <<>>
  /\ nObs = 0
  /\ obsLast = NoObs

-----------------------------------------------------------------------------
(* Part VIII: the round change                                             *)

MaxRst == 3         \* largest combat.round

RstIdle ==
  /\ cRound = 1
  /\ hooks = [o \in Players |-> <<>>]
  /\ racing = {}

-----------------------------------------------------------------------------
(* Part IX: the finish-early checkbox                                      *)

MaxFinRound == 2    \* largest round of a key; the combat is in round 1

NoFin == [n |-> 0, sameRound |-> FALSE, inGroup |-> FALSE, ok |-> FALSE]

FinIdle ==
  /\ finInfo = [round |-> 1, phase |-> 1, phaseCount |-> 4, apPerPhase |-> 1]
  /\ finLast = NoFin

-----------------------------------------------------------------------------
(* Part X: plans with action keys that the catalog does not hold           *)

\* An action key that is in no catalog.
UnknownKey == "unknown"

NoUnk == [stage |-> 0, results |-> <<>>, invalid |-> {}, complete |-> {},
          purple |-> <<>>, need |-> <<>>]

UnkIdle == unk = NoUnk

-----------------------------------------------------------------------------
(* Part XI: the pace of a distance                                         *)

MaxPaceConc == 2    \* concentration flags that are on

NoPaceIn  == [mode |-> "none", dist |-> 0, bmr |-> 0, dashOk |-> FALSE,
              maxPace |-> "none", concOn |-> 0]
NoPaceOut == [done |-> FALSE, pace |-> "none", penalty |-> 0, capMult |-> 0,
              capPace |-> "none", capFt |-> 0, bmrEffective |-> 0]

PaceIdle == paceIn = NoPaceIn /\ paceOut = NoPaceOut

(* Part XII: helpers of the slot layout and of the allocation               *)

MaxBonusCount == 4   \* largest bonusCount handed to buildPhases
MaxBaseRound  == 3   \* largest first round of a phase list
MaxShown      == 3   \* largest number of rounds of a phase list

NoSlotIn  == [fn |-> "none"]
NoSlotOut == [done |-> FALSE]

SlotIdle == slotIn = NoSlotIn /\ slotOut = NoSlotOut

(* Part XIV: the bonusCount input                                          *)

BonKeys == {1} \X (1..internalPhaseCount) \X {"m", "b"}

NoCd == [bonusCount |-> 0, planActions |-> [k \in BonKeys |-> "none"], planAuto |-> {},
         planCosts |-> [k \in BonKeys |-> 0], finActs |-> {}, concentrating |-> FALSE]

BonIdle == cd = NoCd /\ cdLast = [kind |-> "none", was |-> NoCd]

(* Part XV: the drag preview across a round change                         *)

PvIdle == mvPreview = 0

NoWin == [actions |-> {}, round |-> 1, roundsShown |-> 1, baseRound |-> 0,
          analysisRoundsShown |-> 0, done |-> FALSE]

WinIdle == win = NoWin

RestIdle == WinIdle /\ MoveIdle /\ ConcIdle /\ CapIdle /\ ObsIdle /\ RstIdle /\ FinIdle /\ UnkIdle /\ PaceIdle /\ SlotIdle /\ BonIdle /\ PvIdle

Init == ReplIdle /\ ChainIdle /\ RestIdle

Next ==
  \/ \E o \in Observers, cid \in Combatants, v \in Vals :
       \/ ApplyVddInstant(o, cid, v)
       \/ ApplyVddPlan(o, cid, v)
       \/ BonusSpinner(o, cid, v)
       \/ BonusChange(o, cid, v)
       \/ \E focus \in BOOLEAN : ToggleConc(o, cid, v, focus)
  \/ \E o \in Players : Deliver(o)
  \/ PersistOk
  \/ PersistFail
  \/ \E o \in Players : Notify(o)

Spec == Init /\ [][Next]_vars

-----------------------------------------------------------------------------
(* Specification SpecChain: one plan, evaluated and analysed               *)

\* The selectors that hold a range-cost action.
RangeKeys(plan) ==
  {k \in AllKeys : /\ plan[k] \in DOMAIN actionsMap
                    /\ actionsMap[plan[k]].maxCost > actionsMap[plan[k]].minCost}

\* The plans a combatant with the given bonusCount fills in: bonus selectors
\* exist in the phases hasBonusInPhase grants.
Plans(bonusCount) ==
  {f \in [AllKeys -> Sel] :
     \A k \in AllKeys : f[k] # "none" => (k[3] = "m" \/ hasBonusInPhase(k[2], bonusCount))}

\* The concentration toggles of the combatant: none on, one of the immediate
\* ones on, or Hold Action on with the selector its action completed at.
ConcInputs ==
  {[immediateOn |-> FALSE, holdOn |-> FALSE, pendingIdx |-> 0],
   [immediateOn |-> TRUE,  holdOn |-> FALSE, pendingIdx |-> 0]}
  \cup {[immediateOn |-> FALSE, holdOn |-> TRUE, pendingIdx |-> p] : p \in 1..MaxPendingIdx}

InitChain ==
  /\ ReplIdle /\ RestIdle
  /\ curRound \in 1..MaxRound
  /\ curPhase \in 1..internalPhaseCount
  /\ \E bonusCount \in 0..MaxBonus :
       /\ planActions \in Plans(bonusCount)
       /\ phases = buildPhasesForAnalysis(curRound, RoundsShown, bonusCount, planActions)
  /\ \E f \in ConcInputs :
       /\ concentrating = (f.immediateOn \/ f.holdOn)
       /\ capByKey = buildCapByKey(phases, f.immediateOn, f.holdOn, f.pendingIdx)
  /\ finActs \in {S \in SUBSET RangeKeys(planActions) : Cardinality(S) <= MaxFin}
  /\ LoopIdle

\* One iteration of the loop of evaluateChainsWithPenalty.
EvalStep ==
  /\ idx < Len(phases)
  /\ LET c0 == [ currentAction |-> currentAction, remaining |-> remaining,
                 spentAP |-> spentAP, minCost |-> minCost, maxCost |-> maxCost,
                 isRange |-> isRange, spentPhaseIdxs |-> spentPhaseIdxs ]
         o  == EvalPhase(c0, results, brk.live, idx + 1)
     IN /\ idx' = idx + 1
        /\ currentAction' = o.chain.currentAction
        /\ remaining' = o.chain.remaining
        /\ spentAP' = o.chain.spentAP
        /\ minCost' = o.chain.minCost
        /\ maxCost' = o.chain.maxCost
        /\ isRange' = o.chain.isRange
        /\ spentPhaseIdxs' = o.chain.spentPhaseIdxs
        /\ results' = o.results
        /\ brk' = [o.brk EXCEPT !.marked = Marked(results, o.results)]
  /\ UNCHANGED <<replVars, restVars, inputVars, ui>>

\* The call of analyzeChainsForUI that follows the evaluation in getData.
Analyze ==
  /\ idx = Len(phases)
  /\ ~ui.done
  /\ ui' = analyzeChainsForUI
  /\ UNCHANGED <<replVars, restVars, inputVars, idx, currentAction, remaining, spentAP, minCost,
                 maxCost, isRange, spentPhaseIdxs, results, brk>>

NextChain == EvalStep \/ Analyze

SpecChain == InitChain /\ [][NextChain]_vars

-----------------------------------------------------------------------------
(* Properties of the replication protocol (specification Spec)             *)

\* An observer with write authority over a combatant's plan: a player that
\* owns the actor, the GM on an actor no player owns.
WriteAuthority(o, cid) ==
  IF o = Holder THEN isGmOwnedActor(cid) ELSE o \in PlayerOwners(cid)

\* C1: once the holder has persisted the update an observer submitted last
\* for a path, that observer has no pending entry for the path (for every
\* observer, holder or not).
C1_PendingClearedOnPersist ==
  \A o \in Observers, p \in Paths :
    <<o, p>> \in hist.confirmed => pending[o][p] = Absent

\* C1, the case the code handles: the holder's own pending entry is gone once
\* its latest write to the path is persisted.
C1_HolderCase ==
  \E p \in Paths : <<Holder, p>> \in hist.confirmed /\ pending[Holder][p] = Absent

\* Nothing is in flight, nothing failed, every notification has arrived.
Quiescent ==
  /\ gmWrites = <<>>
  /\ \A o \in Players : sock[o] = <<>> /\ snap[o] = auth
  /\ nFails = 0

\* C2: when every request has been delivered and persisted (and no further
\* write is made), each observer's read view of each path is the
\* authoritative value, and that is the value of the request that reached the
\* holder last for the path.
C2_ViewsConverge ==
  Quiescent =>
    \A p \in Paths :
      /\ hist.lastReached[p] # Absent => auth[p] = hist.lastReached[p]
      /\ \A o \in Observers : getData(o)[p] = auth[p] /\ getStateForRead(o)[p] = auth[p]

\* C3: from the submission of (path, v) by an observer until the
\* authoritative copy holds v or the observer writes the path again, every
\* read of the path by that observer (view-model and edit handlers, movement
\* slots, movement caps) returns v.
C3_ReadYourWrites ==
  \A o \in Observers, p \in Paths :
    hist.intent[o][p] # Absent =>
      /\ getData(o)[p] = hist.intent[o][p]
      /\ getStateForRead(o)[p] = hist.intent[o][p]
      /\ preUpdateTokenState(o)[p] = hist.intent[o][p]

\* C4: after the holder's persistence call for an observer's write failed,
\* the writer keeps the pending entry and its reads of the path return the
\* optimistic value, until it writes the path again.
C4_FailedWriteStaysVisible ==
  \A o \in Observers, p \in Paths :
    hist.failedW[o][p] # Absent =>
      /\ pending[o][p] = hist.failedW[o][p]
      /\ getData(o)[p] = hist.failedW[o][p]

\* C5: an observer without write authority over a combatant's plan changes
\* nothing by its attempts: it holds no pending entry for the plan, and no
\* message or write of it for the plan exists.
C5_NoAuthorityNoChange ==
  \A o \in Observers, cid \in Combatants :
    ~WriteAuthority(o, cid) =>
      /\ \A f \in Fields : pending[o][<<cid, f>>] = Absent
      /\ \A i \in 1..Len(gmWrites) : ~(gmWrites[i].by = o /\ gmWrites[i].path[1] = cid)
      /\ \A f \in Fields : hist.subm[o][<<cid, f>>] = 0

\* C5, the case the code handles: a handler that checks isGmReadOnlyCombatant
\* has returned early.
C5_RejectedCase == hist.denied

-----------------------------------------------------------------------------
(* Properties of the chain evaluator (specification SpecChain)             *)

\* The place of the phase the loop did last, relative to the current one.
Before(i) == phases[i].round < curRound \/ (phases[i].round = curRound /\ phases[i].phase < curPhase)
AtNow(i)  == phases[i].round = curRound /\ phases[i].phase = curPhase
After(i)  == ~Before(i) /\ ~AtNow(i)

\* The iteration set no flag, recorded no penalty and dropped the chain.
NotPenalized ==
  /\ ~brk.marked
  /\ ~results[idx].broke /\ ~results[idx].lost
  /\ results[idx].penalty = 0
  /\ currentAction = "none"

\* C7 as stated: a break detected on the current slot or on a later one is
\* not penalized.
C7_BreakAtOrAfterNowSilent ==
  (idx >= 1 /\ brk.gap /\ ~Before(idx)) => NotPenalized

\* C7: a break detected on a slot after the current one is not penalized
\* (no broke, no lost, no penalty, the chain is dropped); on the current slot
\* a chain that has not met a range minimum is marked broke.
C7_FutureBreakSilent ==
  /\ (idx >= 1 /\ brk.gap /\ After(idx)) => NotPenalized
  /\ (idx >= 1 /\ brk.gap /\ AtNow(idx) /\ ~(brk.mx > brk.mn /\ brk.acc >= brk.mn))
       => results[idx].broke

\* C7 witness: a chain short of its cost stops on a future slot.
C7_Witness ==
  /\ idx >= 1 /\ brk.gap /\ After(idx)
  /\ brk.ended # {} /\ brk.acc < brk.mn

\* C8: a range-cost chain short of its minimum that a past slot fails to
\* repeat: every phase that contributed is lost, the breaking phase is broke
\* and its penalty is -25 x round(max(0, maxCost - accumulated)).
C8_ShortChainLost ==
  (idx >= 1 /\ brk.gap /\ brk.mx > brk.mn /\ brk.acc < brk.mn /\ Before(idx)) =>
     /\ results[idx].broke
     /\ results[idx].penalty = 0 - 25 * ((Max0(brk.mx - brk.acc) + 1) \div 2)
     /\ \A i \in brk.ended : results[i].lost

\* C8 witness: two phases contributed, still short of the minimum, then a gap
\* in the past.
C8_Witness ==
  /\ idx >= 1 /\ brk.gap /\ brk.mx > brk.mn /\ brk.acc < brk.mn /\ Before(idx)
  /\ Cardinality(brk.ended) = 2
  /\ \A i \in brk.ended : results[i].lost

\* The last key of a range-cost chain that a gap ended with the minimum met.
EndsWithMinMet(k) ==
  /\ k \in ui.ends
  /\ metaFor(planActions[k]).mx > metaFor(planActions[k]).mn
  /\ ui.acc[k] >= metaFor(planActions[k]).mn

\* The evaluator sets no flag when a range-cost chain stops with its minimum
\* met, and a selector that takes the chain to its maximum has no penalty.
C9_NoMarks ==
  /\ (idx >= 1 /\ brk.gap /\ brk.mx > brk.mn /\ brk.acc >= brk.mn) =>
        ~brk.marked /\ ~results[idx].broke /\ ~results[idx].lost
  /\ ui.done =>
       \A k \in AllKeys :
         (planActions[k] # "none" /\ ui.acc[k] >= metaFor(planActions[k]).mx) => ui.purple[k] = 0

\* C9 as stated: with the minimum met at the interruption no slot is lost or
\* broke, and the last contributing selector records -25 per whole AP short
\* of maxCost.
C9_PenaltyPerWholeAP ==
  /\ C9_NoMarks
  /\ ui.done =>
       \A k \in AllKeys :
         EndsWithMinMet(k) =>
           /\ ui.purple[k] = 0 - 25 * ((metaFor(planActions[k]).mx - ui.acc[k]) \div 2)
           /\ k \notin ui.invalid

\* C9: with the minimum met at the interruption no slot is lost or broke, and
\* the last contributing selector records -25 x round(maxCost - accumulated),
\* a half AP rounding up.
C9_PenaltyRounded ==
  /\ C9_NoMarks
  /\ ui.done =>
       \A k \in AllKeys :
         EndsWithMinMet(k) =>
           /\ ui.purple[k] = 0 - 25 * ((metaFor(planActions[k]).mx - ui.acc[k] + 1) \div 2)
           /\ k \notin ui.invalid

\* C9 witness: a chain interrupted with the minimum met, a half AP off a whole
\* number.
C9_Witness ==
  /\ ui.done
  /\ \E k \in AllKeys : EndsWithMinMet(k) /\ ui.acc[k] % 2 = 1 /\ ui.purple[k] < 0

\* C10: when the main selector of a past phase pays a chain off and the bonus
\* selector of the phase holds the same action, the evaluator is then
\* tracking a new chain of that action that has accumulated the bonus
\* selector's capacity only.
C10_NewChainOnNextSelector ==
  (/\ idx >= 1 /\ brk.mainDone /\ Before(idx)
   /\ phaseKey(phases[idx].round, phases[idx].phase, "b") \notin finActs)
    => /\ currentAction = brk.act
       /\ spentAP = capForKey(phaseKey(phases[idx].round, phases[idx].phase, "b"))

\* C10 in analyzeChainsForUI: the selector at which a chain reaches its
\* target is in the complete set and the chain's accumulation there is below
\* the target plus one capacity, whatever came before.
C10_CompleteSetRestarts ==
  ui.done =>
    \A k \in AllKeys :
      (planActions[k] # "none" /\ ui.acc[k] >= metaFor(planActions[k]).mx)
        => k \in ui.complete /\ ui.acc[k] < metaFor(planActions[k]).mx + capForKey(k)

\* The selector keys of the analysed list in order, and the phase of a key.
KeySeq == slotKeys(phases)
PhaseOf(k) == CHOOSE j \in 1..Len(phases) : phases[j].round = k[1] /\ phases[j].phase = k[2]
KeyBefore(k) == Before(PhaseOf(k))

RECURSIVE SumCaps(_, _)
SumCaps(a, b) == IF a > b THEN 0 ELSE capForKey(KeySeq[a]) + SumCaps(a + 1, b)

\* Keys a..b hold one fixed-cost action in strictly-past slots, the key before
\* a does not hold it, and the capacities first reach the cost at b.
FixedRun(a, b) ==
  LET act == planActions[KeySeq[a]] IN
  /\ act # "none"
  /\ metaFor(act).mx = metaFor(act).mn
  /\ \A n \in a..b : planActions[KeySeq[n]] = act /\ KeyBefore(KeySeq[n])
  /\ a = 1 \/ planActions[KeySeq[a - 1]] # act
  /\ SumCaps(a, b) >= metaFor(act).mx
  /\ SumCaps(a, b - 1) < metaFor(act).mx

\* What the claim says of the run a..b: complete at b and not before, every
\* phase of the run reports the capacities of its keys of the run, and none
\* is broke or lost.
CompletesAt(a, b) ==
  /\ KeySeq[b] \in ui.complete
  /\ \A n \in a..(b - 1) : KeySeq[n] \notin ui.complete
  /\ \A n \in a..b :
       LET j == PhaseOf(KeySeq[n])
           mine == {q \in a..b : PhaseOf(KeySeq[q]) = j}
           lo == CHOOSE q \in mine : \A r \in mine : q <= r
           hi == CHOOSE q \in mine : \A r \in mine : q >= r
       IN /\ results[j].contrib = SumCaps(lo, hi)
          /\ ~results[j].broke /\ ~results[j].lost

\* C11: a fixed-cost action selected in consecutive strictly-past slots whose
\* capacities first sum to its cost at the k-th slot completes exactly there:
\* that key is complete and no earlier one, each slot of the chain reports
\* its capacity as contribution, and none is broke or lost.  (The bonus
\* selector of the completing phase is taken not to repeat the action.)
C11_FixedChainCompletes ==
  (idx = Len(phases) /\ ui.done) =>
     \A a \in 1..Len(KeySeq), b \in 1..Len(KeySeq) :
        (/\ a <= b /\ FixedRun(a, b)
         /\ (b < Len(KeySeq) /\ PhaseOf(KeySeq[b + 1]) = PhaseOf(KeySeq[b]))
              => planActions[KeySeq[b + 1]] # planActions[KeySeq[b]])
        => CompletesAt(a, b)

\* C11 for a chain on its own: nothing at all is selected before the run.
C11_AloneCompletes ==
  (idx = Len(phases) /\ ui.done) =>
     \A a \in 1..Len(KeySeq), b \in 1..Len(KeySeq) :
        (/\ a <= b /\ FixedRun(a, b)
         /\ \A n \in 1..(a - 1) : planActions[KeySeq[n]] = "none"
         /\ (b < Len(KeySeq) /\ PhaseOf(KeySeq[b + 1]) = PhaseOf(KeySeq[b]))
              => planActions[KeySeq[b + 1]] # planActions[KeySeq[b]])
        => CompletesAt(a, b)

\* The position of a key in the key list, and the next key after it that
\* holds the same action (0 if there is none).
KeyIdx(k) == CHOOSE n \in 1..Len(KeySeq) : KeySeq[n] = k
NextSame(k) ==
  LET later == {q \in (KeyIdx(k) + 1)..Len(KeySeq) : planActions[KeySeq[q]] = planActions[k]}
  IN IF later = {} THEN 0 ELSE CHOOSE q \in later : \A r \in later : q <= r

\* The last iteration booked a contribution of a range-cost chain on a phase
\* with the finish-early flag on a selector of the chain's action.
FinishedEarly ==
  /\ idx >= 1 /\ brk.act # "none" /\ ~brk.gap /\ brk.mx > brk.mn
  /\ \E kind \in {"m", "b"} :
       LET k == phaseKey(phases[idx].round, phases[idx].phase, kind) IN
       /\ k \in finActs /\ planActions[k] = brk.act
       /\ kind = "b" => phases[idx].hasBonus

\* C12: the finish-early flag on a selector of a range-cost chain ends the
\* chain there whatever cost remains: the evaluator drops the chain without
\* setting a flag and leaves the chain's phases neither lost nor broke; the
\* key is in the complete set and not invalid, the next selector of the
\* action starts from its own capacity, and the penalty label of the key is
\* the one of its accumulated AP (-25 x round(max - acc) from the minimum on,
\* none below it).
C12_FinishEarly ==
  /\ FinishedEarly =>
       /\ currentAction = "none" /\ ~brk.marked
       /\ \A i \in brk.ended : ~results[i].lost /\ ~results[i].broke
  /\ ui.done =>
       \A k \in finActs :
         LET m == metaFor(planActions[k]) IN
         (k \in DOMAIN capByKey /\ m.mx > m.mn) =>
           /\ k \in ui.complete /\ k \notin ui.invalid
           /\ ui.purple[k] = IF ui.acc[k] >= m.mn
                                THEN 0 - 25 * ((Max0(m.mx - ui.acc[k]) + 1) \div 2)
                                ELSE 0
           /\ NextSame(k) # 0 =>
                 ui.acc[KeySeq[NextSame(k)]] = capForKey(KeySeq[NextSame(k)])

\* C12 witness: a chain finished early short of its minimum, the evaluator
\* having tracked it, and the action selected again on the next selector.
C12_Witness ==
  /\ ui.done
  /\ \E k \in finActs :
       /\ k \in ui.complete /\ ui.acc[k] < metaFor(planActions[k]).mn
       /\ NextSame(k) = KeyIdx(k) + 1
       /\ results[PhaseOf(k)].contrib > 0
       /\ ~results[PhaseOf(k)].lost

\* The current phase of the analysed list and its two selector keys.
CurIdx == CHOOSE j \in 1..Len(phases) : AtNow(j)
CurKm  == phaseKey(curRound, curPhase, "m")
CurKb  == phaseKey(curRound, curPhase, "b")
CurHolds(act) ==
  planActions[CurKm] = act \/ (phases[CurIdx].hasBonus /\ planActions[CurKb] = act)

\* Phase j is the slot right before now.
RightBeforeNow(j) ==
  \/ phases[j].round = curRound /\ phases[j].phase = curPhase - 1
  \/ curPhase = 1 /\ phases[j].round = curRound - 1 /\ phases[j].phase = internalPhaseCount

\* k is the last contributing key of an unfinished chain that ends right
\* before now, and the current slot does not repeat its action.
BrokenBeforeNow(k) ==
  /\ k \in ui.ends
  /\ RightBeforeNow(PhaseOf(k))
  /\ ~CurHolds(planActions[k])

\* Such a chain that has also met the minimum of its range-cost action.
MinMetAt(k) ==
  /\ metaFor(planActions[k]).mx > metaFor(planActions[k]).mn
  /\ ui.acc[k] >= metaFor(planActions[k]).mn

CurKeys == {CurKm} \cup (IF phases[CurIdx].hasBonus THEN {CurKb} ELSE {})

-----------------------------------------------------------------------------
(* Specification SpecWindow: the window of one chain analysis              *)

MaxWinRound == 8

MaxCfgCost == 10

Act(k, mn, mx) == [key |-> k, minCost |-> mn, maxCost |-> mx]

\* The default catalog, with the costs of every entry.
DefaultCatalog ==
  { Act("drop-item", 0, 0), Act("shift-item", 1, 1), Act("draw-weapon", 1, 1),
    Act("get-item", 3, 3), Act("move-bmr", 1, 1), Act("maneuver", 1, 1),
    Act("prone-stand", 2, 2), Act("mount-dismount", 4, 4), Act("melee", 2, 4),
    Act("ranged", 1, 3), Act("draw-ammo", 1, 1), Act("string-bow", 6, 6),
    Act("load-light-crossbow", 6, 6), Act("load-heavy-crossbow", 14, 14),
    Act("full-dodge-block", 4, 4), Act("cast-spell", 2, 4), Act("cast-inst", 0, 0),
    Act("perception", 0, 2), Act("eat-drink", 2, 2), Act("pick-lock", 20, 20) }

\* The keys a configuration may hold: two of the default catalog and one of
\* its own.
ConfigKeys == {"pick-lock", "load-heavy-crossbow", "custom"}

\* The actionsConfig settings: each of the keys left out or given a cost.
Configs ==
  { {Act(k, f[k], f[k]) : k \in {q \in ConfigKeys : f[q] >= 0}} :
      f \in [ConfigKeys -> -1..MaxCfgCost] }

\* An empty setting gives the default catalog; a non-empty one is completed
\* with the default actions whose keys it does not hold.
parseActionsConfig(raw) ==
  IF raw = {} THEN DefaultCatalog
  ELSE raw \cup {d \in DefaultCatalog : \A a \in raw : a.key # d.key}

InitWindow ==
  /\ ReplIdle /\ ChainIdle /\ MoveIdle /\ ConcIdle /\ CapIdle /\ ObsIdle /\ RstIdle /\ FinIdle /\ UnkIdle /\ PaceIdle /\ SlotIdle /\ BonIdle /\ PvIdle
  /\ \E raw \in Configs, r \in 1..MaxWinRound :
       win = [NoWin EXCEPT !.actions = parseActionsConfig(raw), !.round = r,
                           !.roundsShown = RoundsShown]

\* The window computation at the head of buildPhasesForAnalysis.
BuildWindow ==
  /\ ~win.done
  /\ LET w == analysisWindow(win.round, win.roundsShown, maxUpperCostOf(win.actions))
     IN win' = [win EXCEPT !.baseRound = w.baseRound,
                           !.analysisRoundsShown = w.analysisRoundsShown,
                           !.done = TRUE]
  /\ UNCHANGED <<replVars, chainVars, moveVars, concVars, capVars, obsVars, rstVars, finVars,
               unkVars, paceVars, slotVars, bonVars, pvVars>>

NextWindow == BuildWindow

SpecWindow == InitWindow /\ [][NextWindow]_vars

-----------------------------------------------------------------------------
(* Properties of the analysis window (specification SpecWindow)            *)

\* Rounds a chain of the catalog's largest cost takes at half an AP a slot
\* and four slots a round.
WorstCaseRounds == (maxUpperCostOf(win.actions) + 1) \div 2

\* C14: whatever the catalog, the window starts at least
\* ceil(maxActionCost / 2) rounds before the current round, or at round 1
\* when fewer rounds have elapsed.
C14_WindowCoversWorstCase ==
  win.done =>
    \/ win.baseRound = 1
    \/ win.round - win.baseRound >= WorstCaseRounds

\* The same for the catalogs whose largest cost is at most 8 AP.
C14_WindowCoversUpToEight ==
  (win.done /\ maxUpperCostOf(win.actions) <= 8) =>
    \/ win.baseRound = 1
    \/ win.round - win.baseRound >= WorstCaseRounds

-----------------------------------------------------------------------------
(* Specification SpecMove: one token moved through the rounds of a combat  *)

M == MOVE_ACTION_KEY

\* The main selections of the four slots of a round, and the bonus selection
\* of the last slot; every round of a run is planned alike.
MainShapes == { <<M, M, M, M>>, <<"none", "melee", M, "melee">> }

PlanOf(f, b4) ==
  [k \in MvKeys |-> IF k[3] = "m" THEN f[k[2]]
                    ELSE IF k[2] = internalPhaseCount THEN b4 ELSE "none"]

MovePlans ==
  {PlanOf(f, "none") : f \in MainShapes} \cup {PlanOf(<<"none", "melee", M, "melee">>, M)}

Sprs == {1, 2}

\* The requests of a run all go the same way along the line.
Dirs == {1}

InitMove ==
  /\ ReplIdle /\ ChainIdle /\ WinIdle /\ ConcIdle /\ CapIdle /\ ObsIdle /\ RstIdle /\ FinIdle /\ UnkIdle /\ PaceIdle /\ SlotIdle /\ BonIdle /\ PvIdle
  /\ actor \in Actors
  /\ scene \in Grids
  /\ mvPlan \in MovePlans
  /\ combat \in [round : {1}, phase : {1}, spr : Sprs]
  /\ track = NoTrack /\ carry = NoCarry /\ inflight = <<>> /\ mvLast = NoMove
  /\ nReq = 0 /\ moved = NoUsage

\* The slot group before the group start..end of a round: the group that
\* ends where this one starts, or the last group of the round before.
groupBefore(round, start, end) ==
  LET len == end - start + 1
  IN IF start > 1
       THEN [round |-> round, start |-> start - len, end |-> start - 1]
       ELSE [round |-> round - 1, start |-> internalPhaseCount - len + 1,
             end |-> internalPhaseCount]

\* Feet committed so far in that group, by selectors and incidentally.
movedInGroupBefore(round, start, end) ==
  LET g == groupBefore(round, start, end)
  IN IF g.round < 1 THEN 0
     ELSE SumUsed(moved, {k \in UsageKeys :
                            \/ k \in MvKeys /\ k[1] = g.round
                                 /\ k[2] >= g.start /\ k[2] <= g.end
                            \/ k = <<"i", g.round, g.start, g.end>>})

\* The user asks for a new position: preUpdateToken, and for a shortened
\* request the update it issues in its place.
MoveRequest(segmentFt, dir) ==
  /\ Len(inflight) < MaxInflight
  /\ nReq < MaxReq
  /\ nReq' = nReq + 1
  /\ \E r \in {preUpdateToken(actor, scene, mvPlan, combat, track, carry, segmentFt, dir)} :
     LET o == r.out
         issued == o.kind \in {"accepted", "clamped"} /\ o.delta # 0
     IN /\ track' = r.track
        /\ inflight' = IF issued
                         THEN Append(inflight, [delta |-> o.delta, mode |-> o.mode,
                                                round |-> o.round,
                                                allocations |-> o.allocations])
                         ELSE inflight
        /\ mvLast' = [o EXCEPT !.issued = issued,
                         !.prevGroupMoved = movedInGroupBefore(o.round, o.start, o.end)]
  /\ UNCHANGED <<actor, scene, mvPlan, combat, carry, moved>>
  /\ UNCHANGED <<replVars, chainVars, winVars, concVars, capVars, obsVars, rstVars, finVars,
               unkVars, paceVars, slotVars, bonVars, pvVars>>

\* The pace label updateToken shows for a committed move of mode A.
paceShown(a, roundTotal) ==
  inferPaceFromBmrTable(roundTotal,
                        IF a.concOn = 1 THEN a.bmr \div 2 ELSE a.bmr,
                        a.concOn < 2 /\ a.instant /\ isLightLoadAtMost15(a),
                        IF a.concOn >= 2 THEN "Creep" ELSE a.maxPace)

\* updateToken of the oldest update in flight.  An update that no longer
\* changes the position is dropped by the host.  A committed update takes
\* the drag preview of the token away.
UpdateToken ==
  /\ inflight # <<>>
  /\ LET u == Head(inflight)
         rest == [n \in 1..(Len(inflight) - 1) |->
                    [inflight[n + 1] EXCEPT !.delta = @ - u.delta]]
         used == [k \in UsageKeys |-> track.usedBySlot[k] + u.allocations[k]]
         commit == track.exists /\ u.delta # 0
     IN /\ inflight' = rest
        /\ track' = IF commit
                      THEN [track EXCEPT !.usedBySlot = used, !.lastCenter = "set"]
                      ELSE track
        /\ moved' = IF commit
                      THEN [k \in UsageKeys |-> moved[k] + u.allocations[k]]
                      ELSE moved
        /\ mvLast' = IF commit /\ u.mode = "move"
                       THEN [mvLast EXCEPT !.pace = paceShown(actor, getRoundTotal(used, u.round))]
                       ELSE mvLast
        /\ mvPreview' = IF commit THEN 0 ELSE mvPreview
  /\ UNCHANGED <<actor, scene, mvPlan, combat, carry, nReq>>
  /\ UNCHANGED <<replVars, chainVars, winVars, concVars, capVars, obsVars, rstVars, finVars,
               unkVars, paceVars, slotVars, bonVars>>

\* combatTurn: the combat moves on to the next phase of the round.  A run
\* ends with its last position request.
CombatTurn ==
  /\ nReq < MaxReq
  /\ combat.phase * combat.spr < internalPhaseCount
  /\ combat' = [combat EXCEPT !.phase = @ + 1]
  /\ track' = IF track.exists
                THEN [track EXCEPT !.phaseKey = NoPhaseKey, !.lastCenter = "null"]
                ELSE track
  /\ UNCHANGED <<actor, scene, mvPlan, carry, inflight, nReq, moved, mvLast>>
  /\ UNCHANGED <<replVars, chainVars, winVars, concVars, capVars, obsVars, rstVars, finVars,
               unkVars, paceVars, slotVars, bonVars, pvVars>>

\* snapshotPrevPhaseCarryover that keeps the total of the whole round.
snapshotOfRound(tr, old, newRound, spr) ==
  LET pr    == newRound - 1
      start == clamp(internalPhaseCount - clamp(spr, 1, 4) + 1, 1, internalPhaseCount)
  IN IF ~(pr >= 1) \/ ~tr.exists THEN old
     ELSE [round |-> pr, start |-> start, end |-> internalPhaseCount,
           totalFt |-> getRoundTotal(tr.usedBySlot, pr)]

snapshotPrevPhaseCarryover(tr, old, newRound, spr) ==
  LET pr    == newRound - 1
      start == clamp(internalPhaseCount - clamp(spr, 1, 4) + 1, 1, internalPhaseCount)
  IN IF ~(pr >= 1) \/ ~tr.exists THEN old
     ELSE [round |-> pr, start |-> start, end |-> internalPhaseCount,
           totalFt |-> sumMovementForInternalRange(tr.usedBySlot, pr, start,
                                                   internalPhaseCount)]

\* updateCombat with a new round: the carryover snapshot, then the tracks
\* are cleared.
NextRound ==
  /\ nReq < MaxReq
  /\ combat.phase * combat.spr >= internalPhaseCount
  /\ combat.round < MaxMvRound
  /\ combat' = [combat EXCEPT !.round = @ + 1, !.phase = 1]
  /\ carry' = snapshotPrevPhaseCarryover(track, carry, combat.round + 1, combat.spr)
  /\ track' = NoTrack
  /\ UNCHANGED <<actor, scene, mvPlan, inflight, nReq, moved, mvLast>>
  /\ UNCHANGED <<replVars, chainVars, winVars, concVars, capVars, obsVars, rstVars, finVars,
               unkVars, paceVars, slotVars, bonVars, pvVars>>

NextMove ==
  \/ \E segmentFt \in Reqs, dir \in Dirs : MoveRequest(segmentFt, dir)
  \/ UpdateToken
  \/ CombatTurn
  \/ NextRound

SpecMove == InitMove /\ [][NextMove]_vars

-----------------------------------------------------------------------------
(* Properties of the movement limits (specification SpecMove)              *)

\* The last request was handled in explicit-move mode.
ModeA == mvLast.mode = "move"

\* C15: in explicit-move mode a request is refused when the round's committed
\* move total has reached the round cap and is otherwise allocated no more
\* than the remaining round allowance, and the committed move total of a
\* round never exceeds the round cap.
C15_RoundTotalWithinCap ==
  /\ ModeA => /\ (mvLast.kind = "cap-load") = (mvLast.roundTotalBefore >= mvLast.capTotalFt)
              /\ mvLast.allocatedTotal <= Max0(mvLast.capTotalFt - mvLast.roundTotalBefore)
  /\ track.exists =>
       SumUsed(track.usedBySlot, {k \in MvKeys : k[1] = combat.round}) <= capTotalFtOf(actor)

\* What one request is allocated stays within the round allowance it saw.
C15_RequestWithinAllowance ==
  ModeA => /\ (mvLast.kind = "cap-load") = (mvLast.roundTotalBefore >= mvLast.capTotalFt)
           /\ mvLast.allocatedTotal <= Max0(mvLast.capTotalFt - mvLast.roundTotalBefore)

\* The last request met neither the boost nor the dash.
PlainCaps == ModeA /\ ~mvLast.moveBoostActive /\ ~mvLast.canDashThisLastSlot

\* The per-slot cap the rule gives the actor when neither applies.
PlainCap == IF actor.concOn = 0 THEN actor.bmr ELSE actor.bmr \div 2

\* The only request of the run asked for more than the cap of the one move
\* selector of its group, and its update has come back.
SingleBeyondCap ==
  /\ nReq = 1 /\ PlainCaps /\ Len(mvLast.moveSlotKeys) = 1
  /\ mvLast.segmentFt > PlainCap
  /\ inflight = <<>> /\ track.exists /\ combat.round = mvLast.round

\* The nearest grid point to a distance of x (x itself on a gridless scene).
Nearest(x) == IF scene = 0 THEN x ELSE ((2 * x + scene) \div (2 * scene)) * scene

BoostInCaps ==
  \A n \in 1..Len(mvLast.moveSlotKeys) :
     LET k == mvLast.moveSlotKeys[n] IN
       (mvLast.canDashThisLastSlot /\ k[2] = internalPhaseCount)
         \/ mvLast.perSlotMax[k] = (IF mvLast.moveBoostActive
                                      THEN (5 * actor.bmr) \div 4 ELSE PlainCap)

LightOrTakenLight ==
  \/ actor.load = "light"
  \/ actor.load = "unknown" /\ (actor.dashPer > 0 \/ actor.maxPace = "Dash")

C17_WitnessEarlier ==
  /\ ModeA /\ actor.load = "light" /\ actor.concOn = 0
  /\ mvLast.prevGroupMoved = 0 /\ mvLast.roundTotalBefore >= Ft(8)
  /\ ~mvLast.moveBoostActive

\* The cap of a move selector of the last request is the actor's dash pace:
\* the feet of its Dash row, halved under one concentration flag.
DashCapAt(k) ==
  /\ actor.dashPer > 0
  /\ mvLast.perSlotMax[k] = (IF actor.concOn = 1 THEN actor.dashPer \div 2 ELSE actor.dashPer)

\* The cap is the normal one or the boosted one.
NormalOrBoostedAt(k) ==
  mvLast.perSlotMax[k] \in {PlainCap, (5 * PlainCap) \div 4}

FinalSlotIsMove(round) ==
  \/ mvPlan[<<round, internalPhaseCount, "m">>] = "move-bmr"
  \/ mvPlan[<<round, internalPhaseCount, "b">>] = "move-bmr"

\* C18: a slot gets the dash cap only if it is slot 4, the instantaneous
\* action is available, a selector of slot 4 holds the move action and the
\* load is at most 15%; every other move slot has the normal or boosted cap.
C18_DashOnlyIf ==
  ModeA =>
    \A n \in 1..Len(mvLast.moveSlotKeys) :
       LET k == mvLast.moveSlotKeys[n] IN
         IF DashCapAt(k)
           THEN /\ k[2] = internalPhaseCount /\ actor.instant
                /\ FinalSlotIsMove(mvLast.round) /\ actor.load = "light"
           ELSE NormalOrBoostedAt(k)

\* C18, amended: the load is at most 15%, or it cannot be read.
C18_DashOnlyIfNotHeavy ==
  ModeA =>
    \A n \in 1..Len(mvLast.moveSlotKeys) :
       LET k == mvLast.moveSlotKeys[n] IN
         IF DashCapAt(k)
           THEN /\ k[2] = internalPhaseCount /\ actor.instant
                /\ FinalSlotIsMove(mvLast.round) /\ actor.load \in {"light", "unknown"}
           ELSE NormalOrBoostedAt(k)

\* A group of two move slots: slot 4 has the dash cap, slot 3 has not.
C18_Witness ==
  /\ ModeA /\ mvLast.start = 3 /\ mvLast.end = internalPhaseCount
  /\ Len(mvLast.moveSlotKeys) = 2
  /\ DashCapAt(mvLast.moveSlotKeys[2]) /\ ~DashCapAt(mvLast.moveSlotKeys[1])

\* Slot 4 is a move slot and the instantaneous action is used: no dash cap.
C18_WitnessUsed ==
  /\ ModeA /\ mvLast.end = internalPhaseCount /\ ~actor.instant
  /\ actor.dashPer > 0 /\ actor.load = "light" /\ actor.concOn = 0
  /\ \E n \in 1..Len(mvLast.moveSlotKeys) :
        mvLast.moveSlotKeys[n][2] = internalPhaseCount
          /\ ~DashCapAt(mvLast.moveSlotKeys[n])

Refusals == {"cap-load", "limit", "cap-phase", "disabled"}

\* C19: a request that cannot be fully satisfied is shortened along its
\* direction and grid-snapped, and the move that results is never longer than
\* the permitted distance; a request that finds no capacity is rejected and
\* no position update is issued.
C19_ShortenedWithinPermitted ==
  /\ mvLast.kind = "clamped" =>
       /\ mvLast.delta = Nearest(mvLast.dir * mvLast.allocatedTotal)
       /\ mvLast.actualFt <= mvLast.allocatedTotal
       /\ mvLast.allocatedTotal < mvLast.segmentFt
  /\ mvLast.kind \in Refusals => ~mvLast.issued

\* The shortened move is the permitted distance moved to the nearest grid
\* point, and what is recorded for it never exceeds the permitted distance.
C19_ShortenedThenSnapped ==
  /\ mvLast.kind = "clamped" =>
       /\ mvLast.delta = Nearest(mvLast.dir * mvLast.allocatedTotal)
       /\ mvLast.actualFt = Abs(mvLast.delta)
       /\ SumUsed(mvLast.allocations, UsageKeys) <= mvLast.allocatedTotal
       /\ SumUsed(mvLast.allocations, UsageKeys) <= mvLast.actualFt
       /\ mvLast.allocatedTotal < mvLast.segmentFt
  /\ mvLast.kind \in Refusals => ~mvLast.issued

\* A rejected request leaves the pending position updates, the committed
\* movement and the recorded usage as they were.
C19_RejectedLeavesState ==
  [][ (nReq' # nReq /\ mvLast'.kind \in Refusals) =>
        /\ inflight' = inflight /\ moved' = moved
        /\ track'.usedBySlot = (IF track.exists THEN track.usedBySlot ELSE NoUsage) ]_vars

\* On a 5 ft grid a request cut to 8 ft has moved the token 10 ft.
C19_SnappedBeyond ==
  /\ mvLast.kind = "clamped" /\ scene = Ft(5)
  /\ mvLast.allocatedTotal = Ft(8) /\ mvLast.actualFt = Ft(10)
  /\ mvLast.issued /\ inflight = <<>>

\* A request rejected for want of capacity after movement was recorded.
C19_Rejected ==
  /\ mvLast.kind \in {"limit", "cap-phase", "cap-load"}
  /\ track.exists /\ SumUsed(track.usedBySlot, UsageKeys) > 0

-----------------------------------------------------------------------------
(* Part V: toggling the concentration-type flags.  Specification SpecConc. *)

\* What the selectors of the current slot group hold: all "-", an action
\* that is complete in the group, or an action that is not.
GroupStates == {"blank", "complete", "busy"}

InitConc ==
  /\ ReplIdle /\ ChainIdle /\ WinIdle /\ MoveIdle /\ CapIdle /\ ObsIdle /\ RstIdle /\ FinIdle /\ UnkIdle /\ PaceIdle /\ SlotIdle /\ BonIdle /\ PvIdle
  /\ concFlags = [cid \in Combatants |-> {}]
  /\ concSnap = [o \in Players |-> [cid \in Combatants |-> {}]]
  /\ concPending = [o \in Observers |-> [cid \in Combatants |-> NoEntry]]
  /\ concSock = [o \in Players |-> <<>>]
  /\ concWrites = <<>>
  /\ curGroup = [cid \in Combatants |-> "blank"]
  /\ nClicks = 0
  /\ concLast = NoClick

\* The click handler of button[data-action='toggleConcFlag'].  A player's
\* calls of requestStatePathUpdate await nothing: of its messages the one
\* for concFlags is kept, the others do not touch the flags.  The GM's calls
\* each await the host before the next one is made.
toggleConcFlag(o, cid, flag) ==
  LET cur       == normalizeConcFlags(concView(o, cid))
      currentOn == countConcOn(cur)
      nextIsOn  == flag \notin cur
      value     == IF nextIsOn THEN cur \cup {flag} ELSE cur \ {flag}
      paths     == togglePaths(currentOn, countConcOn(value))
      kind      == toggleKind(isGmReadOnlyCombatant(o, cid), nextIsOn, flag, currentOn,
                              curGroup[cid])
  IN
  /\ nClicks < MaxClicks
  /\ getVisibleCombatants(o, cid)
  /\ nClicks' = nClicks + 1
  /\ concLast' = [kind |-> kind, by |-> o, cid |-> cid, flag |-> flag,
                  view |-> cur, value |-> IF kind = "written" THEN value ELSE cur,
                  group |-> curGroup[cid],
                  paths |-> IF kind = "written" THEN paths \o <<"holdAction">> ELSE <<>>]
  /\ IF kind # "written"
       THEN UNCHANGED <<concPending, concSock, concWrites>>
       ELSE IF o = Holder
         THEN /\ concPending' = IF Head(paths) = "concFlags"
                                  THEN [concPending EXCEPT ![o][cid] = value]
                                  ELSE concPending
              /\ concWrites' = Append(concWrites,
                   concSetFlag(concFlags, cid, Head(paths), value, TRUE, Tail(paths)))
              /\ concSock' = concSock
         ELSE /\ concPending' = [concPending EXCEPT ![o][cid] = value]
              /\ concSock' = [concSock EXCEPT ![o] =
                   Append(@, [cid |-> cid, path |-> "concFlags", value |-> value])]
              /\ concWrites' = concWrites
  /\ UNCHANGED <<concFlags, concSnap, curGroup>>
  /\ UNCHANGED <<replVars, chainVars, winVars, moveVars, capVars, obsVars, rstVars, finVars,
               unkVars, paceVars, slotVars, bonVars, pvVars>>

\* A selection of the current slot group is changed (applyVddValue).
EditGroup(cid, g) ==
  /\ nClicks < MaxClicks
  /\ g # curGroup[cid]
  /\ nClicks' = nClicks + 1
  /\ curGroup' = [curGroup EXCEPT ![cid] = g]
  /\ UNCHANGED <<concFlags, concSnap, concPending, concSock, concWrites, concLast>>
  /\ UNCHANGED <<replVars, chainVars, winVars, moveVars, capVars, obsVars, rstVars, finVars,
               unkVars, paceVars, slotVars, bonVars, pvVars>>

\* game.socket.on: the GM handles one "setStatePath" message of sender o.
ConcDeliver(o) ==
  /\ concSock[o] # <<>>
  /\ LET m == Head(concSock[o]) IN
       concWrites' = Append(concWrites,
         concSetFlag(concFlags, m.cid, m.path, m.value, FALSE, <<>>))
  /\ concSock' = [concSock EXCEPT ![o] = Tail(@)]
  /\ UNCHANGED <<concFlags, concSnap, concPending, curGroup, nClicks, concLast>>
  /\ UNCHANGED <<replVars, chainVars, winVars, moveVars, capVars, obsVars, rstVars, finVars,
               unkVars, paceVars, slotVars, bonVars, pvVars>>

\* The host completes the oldest setFlag call; the GM's own
\* requestStatePathUpdate deletes its pending entry and returns to the
\* toggle handler, which writes its next path.
ConcPersist ==
  /\ concWrites # <<>>
  /\ LET w   == Head(concWrites)
         a   == concMerge(concFlags, w)
         pd  == IF w.own /\ w.path = "concFlags"
                  THEN [concPending EXCEPT ![Holder][w.cid] = NoEntry]
                  ELSE concPending
         nxt == IF w.own /\ w.rest # <<>>
                  THEN <<concSetFlag(a, w.cid, Head(w.rest), w.value, TRUE, Tail(w.rest))>>
                  ELSE <<>>
     IN /\ concFlags' = a
        /\ concPending' = IF nxt # <<>> /\ nxt[1].path = "concFlags"
                            THEN [pd EXCEPT ![Holder][w.cid] = w.value]
                            ELSE pd
        /\ concWrites' = Tail(concWrites) \o nxt
  /\ UNCHANGED <<concSnap, concSock, curGroup, nClicks, concLast>>
  /\ UNCHANGED <<replVars, chainVars, winVars, moveVars, capVars, obsVars, rstVars, finVars,
               unkVars, paceVars, slotVars, bonVars, pvVars>>

\* The host's change notification reaches player o.
ConcNotify(o) ==
  /\ concSnap[o] # concFlags
  /\ concSnap' = [concSnap EXCEPT ![o] = concFlags]
  /\ UNCHANGED <<concFlags, concPending, concSock, concWrites, curGroup, nClicks, concLast>>
  /\ UNCHANGED <<replVars, chainVars, winVars, moveVars, capVars, obsVars, rstVars, finVars,
               unkVars, paceVars, slotVars, bonVars, pvVars>>

NextConc ==
  \/ \E o \in Observers, cid \in Combatants, flag \in ConcFlagKeys :
       toggleConcFlag(o, cid, flag)
  \/ \E cid \in Combatants, g \in GroupStates : EditGroup(cid, g)
  \/ \E o \in Players : ConcDeliver(o)
  \/ ConcPersist
  \/ \E o \in Players : ConcNotify(o)

SpecConc == InitConc /\ [][NextConc]_vars

\* C20: in the authoritative state and in every observer's read view at most
\* two of the five concentration-type flags are true, whatever the toggle
\* requests and their interleaving.
C20_AtMostTwo ==
  \A cid \in Combatants :
     /\ countConcOn(concFlags[cid]) <= 2
     /\ \A o \in Observers :
          /\ countConcOn(concView(o, cid)) <= 2
          /\ countConcOn(concStateForRead(o, cid)) <= 2

\* What one click submits: a flag is switched on only from a view with fewer
\* than two flags on, and every value submitted, pending or awaiting the
\* host has at most two flags on.
C20_EachRequestWithinCap ==
  /\ (concLast.kind = "written" /\ concLast.flag \in concLast.value) =>
       countConcOn(concLast.view) < 2
  /\ \A o \in Observers, cid \in Combatants :
       concPending[o][cid] # NoEntry => countConcOn(concPending[o][cid]) <= 2
  /\ \A o \in Players : \A i \in 1..Len(concSock[o]) :
       countConcOn(concSock[o][i].value) <= 2
  /\ \A i \in 1..Len(concWrites) : countConcOn(concWrites[i].value) <= 2

\* Three flags are on in the authoritative state.
C20_ThreeOn == \E cid \in Combatants : countConcOn(concFlags[cid]) = 3

\* The same for a combatant only the GM toggles.
C20_ThreeOnGm == countConcOn(concFlags["npc"]) = 3

\* A third flag was refused at the cap.
C20_CapRefused == concLast.kind = "cap"

\* The last click asked to switch its flag on.
TurnsOn == concLast.kind # "none" /\ concLast.flag \notin concLast.view

\* C21: switching on any concentration-type flag while the current slot
\* group holds a non-blank selection is rejected with a warning, and no path
\* of the combatant is written.
C21_NonBlankRefused ==
  (TurnsOn /\ concLast.group # "blank") =>
     /\ concLast.kind \in {"not-blank", "cap", "not-complete", "read-only"}
     /\ concLast.paths = <<>>

\* C21, amended: this holds of the four flags other than hold-action, for a
\* user who may edit the combatant; the GM's click on a player's combatant
\* is dropped without a warning.
C21_NonBlankRefusedButHold ==
  (TurnsOn /\ concLast.group # "blank" /\ concLast.flag # "holdAction") =>
     /\ concLast.kind = (IF isGmReadOnlyCombatant(concLast.by, concLast.cid)
                           THEN "read-only" ELSE "not-blank")
     /\ concLast.paths = <<>>
     /\ concLast.value = concLast.view

\* A click that is refused writes nothing: the flags, the pending entries,
\* the socket and the writes awaiting the host stay as they were.
C21_RefusedLeavesState ==
  [][ (nClicks' # nClicks /\ curGroup' = curGroup
         /\ concLast'.kind \in {"not-blank", "cap", "not-complete", "read-only"}) =>
        UNCHANGED <<concFlags, concSnap, concPending, concSock, concWrites>> ]_vars

\* A flag other than hold-action was refused on a group with a selection.
C21_Witness ==
  /\ TurnsOn /\ concLast.kind = "not-blank" /\ concLast.group = "complete"
  /\ concLast.flag = "concentration" /\ concLast.by \in Players

\* Hold-action was switched on over a group with a completed selection.
C21_HoldAccepted ==
  /\ TurnsOn /\ concLast.flag = "holdAction" /\ concLast.group = "complete"
  /\ concLast.kind = "written"

-----------------------------------------------------------------------------
(* Part VI: buildCapByKey on the window of round 1, for every combination  *)
(* of the five flags.  Specification SpecCap.                              *)

BlankPlan == [k \in AllKeys |-> "none"]

InitCap ==
  /\ ReplIdle /\ ChainIdle /\ WinIdle /\ MoveIdle /\ ConcIdle /\ ObsIdle /\ RstIdle /\ FinIdle /\ UnkIdle /\ PaceIdle /\ SlotIdle /\ BonIdle /\ PvIdle
  /\ capIn \in [flags : SUBSET ConcFlagKeys, pendingKey : AllKeys \cup {NoKey},
                bonusCount : 0..MaxBonus, apPerPhase : 0..MaxAp]
  /\ capOut = NoCapOut

\* One call of buildCapByKey({ phasesAnalysis, flags, holdMeta, apPerPhase }).
BuildCaps ==
  /\ ~capOut.done
  /\ LET keys == slotKeys(buildPhasesForAnalysis(1, RoundsShown, capIn.bonusCount, BlankPlan))
         immediateOn == capIn.flags \cap {"concentration", "holdPosition",
                                          "partialDodgeBlock", "spellPreparation"} # {}
         holdOn      == "holdAction" \in capIn.flags
         pendingIdx  == IF capIn.pendingKey = NoKey THEN 0
                        ELSE indexOfKey(keys, capIn.pendingKey)
     IN capOut' = [done |-> TRUE, keys |-> keys,
                   cap |-> [i \in 1..Len(keys) |->
                              capOfIndex(i, immediateOn, holdOn, pendingIdx,
                                         budgetOf(capIn.apPerPhase))]]
  /\ UNCHANGED capIn
  /\ UNCHANGED <<replVars, chainVars, winVars, moveVars, concVars, obsVars, rstVars, finVars,
               unkVars, paceVars, slotVars, bonVars, pvVars>>

NextCap == BuildCaps

SpecCap == InitCap /\ [][NextCap]_vars

\* The budget of the call, in half points.
Budget == IF capIn.apPerPhase > 0 THEN 2 * capIn.apPerPhase ELSE 2

\* Position of the pending key in the key list that was built, 0 if it is
\* not in it.
PendingAt ==
  IF \E i \in 1..Len(capOut.keys) : capOut.keys[i] = capIn.pendingKey
    THEN CHOOSE i \in 1..Len(capOut.keys) : capOut.keys[i] = capIn.pendingKey
    ELSE 0

HoldPending == capOut.done /\ "holdAction" \in capIn.flags /\ PendingAt >= 1

\* C22: while hold-action is on and a pending key is recorded, every key up
\* to and including the pending key has the full capacity and every key
\* after it half of it, whatever the other four flags are.
C22_HoldKeepsFullUpToPending ==
  HoldPending =>
    \A i \in 1..Len(capOut.keys) :
       capOut.cap[i] = (IF i <= PendingAt THEN Budget ELSE Budget \div 2)

\* C22, amended: so it is when none of the other four flags is on.
C22_HoldKeepsFullUpToPendingAlone ==
  (HoldPending /\ capIn.flags = {"holdAction"}) =>
    \A i \in 1..Len(capOut.keys) :
       capOut.cap[i] = (IF i <= PendingAt THEN Budget ELSE Budget \div 2)

\* With one of the other four flags on as well, every key has half.
C22_HoldWithOtherFlagHalved ==
  (HoldPending /\ capIn.flags # {"holdAction"}) =>
    \A i \in 1..Len(capOut.keys) : capOut.cap[i] = Budget \div 2

\* Hold-action alone, the pending key in the middle of the key list.
C22_Witness ==
  /\ HoldPending /\ capIn.flags = {"holdAction"}
  /\ PendingAt > 1 /\ PendingAt < Len(capOut.keys)
  /\ capOut.cap[PendingAt] = 2 /\ capOut.cap[PendingAt + 1] = 1
  /\ capIn.bonusCount > 0

ImmediateFlags == {"concentration", "holdPosition", "partialDodgeBlock", "spellPreparation"}

\* C30: for every combination of the five flags, the hold-action metadata
\* and the budget b, the capacity of each key is b or b/2; it is b for every
\* key when no flag is on and b/2 for every key when one of concentration,
\* hold-position, partial-dodge/block and spell-preparation is on.
C30_CapIsBudgetOrHalf ==
  capOut.done =>
    /\ \A i \in 1..Len(capOut.keys) : capOut.cap[i] \in {Budget, Budget \div 2}
    /\ capIn.flags = {} => \A i \in 1..Len(capOut.keys) : capOut.cap[i] = Budget
    /\ capIn.flags \cap ImmediateFlags # {} =>
         \A i \in 1..Len(capOut.keys) : capOut.cap[i] = Budget \div 2

\* Spell-preparation alone with a budget of 2 AP: every key has 1 AP.
C30_Witness ==
  /\ capOut.done /\ capIn.flags = {"spellPreparation"} /\ capIn.apPerPhase = 2
  /\ Len(capOut.keys) > internalPhaseCount
  /\ \A i \in 1..Len(capOut.keys) : capOut.cap[i] = 2

\* No flag on with a budget of 2 AP: every key has 2 AP.
C30_WitnessFull ==
  /\ capOut.done /\ capIn.flags = {} /\ capIn.apPerPhase = 2
  /\ capIn.pendingKey # NoKey
  /\ \A i \in 1..Len(capOut.keys) : capOut.cap[i] = 4

NoBmr == actor.bmr <= 0 /\ mvLast.kind # "none"

\* C23: for an actor without a finite positive BMR enforcement is skipped:
\* every position request is accepted as it was made, whatever the plan
\* holds and whatever usage is tracked.
C23_NoBmrAccepted ==
  NoBmr =>
    /\ mvLast.kind = "unenforced"
    /\ mvLast.delta = mvLast.dir * mvLast.segmentFt

\* What holds: the request is accepted as made unless the selectors of the
\* current slot group are all blank, and nothing is recorded for it.
C23_NoBmrAcceptedUnlessBlank ==
  NoBmr =>
    /\ mvLast.kind \in {"unenforced", "disabled"}
    /\ mvLast.kind = "disabled" <=>
         \A r \in {mvLast.round}, p \in mvLast.start..mvLast.end, t \in {"m", "b"} :
            mvPlan[<<r, p, t>>] = "none"
    /\ mvLast.kind = "unenforced" => mvLast.delta = mvLast.dir * mvLast.segmentFt
    /\ ~mvLast.issued /\ inflight = <<>>
    /\ track.exists => track.usedBySlot = NoUsage

\* A request of an actor without BMR is refused on a blank slot group.
C23_NoBmrBlocked == NoBmr /\ mvLast.kind = "disabled" /\ mvLast.segmentFt = Ft(10)

\* A request of an actor without BMR is let through.
C23_NoBmrLetThrough == NoBmr /\ mvLast.kind = "unenforced" /\ mvLast.segmentFt = Ft(20)

-----------------------------------------------------------------------------
(* Part VII: one token moved by two users, each client with its own panel, *)
(* _moveTrack and _movePreview.  Specification SpecObs.                    *)

\* The current combatant: BMR 16 ft, light load, every slot planned as a
\* move, round 1, phase 1, gridless scene.
ObsActor  == [bmr |-> Ft(16), load |-> "light", dashPer |-> 0, maxPace |-> "none",
              instant |-> TRUE, concOn |-> 0]
ObsPlan   == [k \in MvKeys |-> IF k[3] = "m" THEN MOVE_ACTION_KEY ELSE "none"]
ObsCombat == [round |-> 1, phase |-> 1, spr |-> 1]

InitObs ==
  /\ ReplIdle /\ ChainIdle /\ WinIdle /\ MoveIdle /\ ConcIdle /\ CapIdle /\ RstIdle /\ FinIdle /\ UnkIdle /\ PaceIdle /\ SlotIdle /\ BonIdle /\ PvIdle
  /\ rendered \in [Users -> BOOLEAN]
  /\ tracks = [u \in Users |-> NoTrack]
  /\ preview = [u \in Users |-> FALSE]
  /\ updates = <<>>
  /\ nObs = 0
  /\ obsLast = NoObs

\* The user opens or closes the tracker panel.
ObsRender(u) ==
  /\ nObs < MaxObs
  /\ nObs' = nObs + 1
  /\ rendered' = [rendered EXCEPT ![u] = ~@]
  /\ UNCHANGED <<tracks, preview, updates, obsLast>>
  /\ UNCHANGED <<replVars, chainVars, winVars, moveVars, concVars, capVars, rstVars, finVars,
               unkVars, paceVars, slotVars, bonVars, pvVars>>

\* The user drags the token: _onDragLeftMove and _updateMovePreviewForToken.
ObsDrag(u) ==
  /\ nObs < MaxObs
  /\ nObs' = nObs + 1
  /\ IF rendered[u]
       THEN /\ tracks' = [tracks EXCEPT ![u] = resetMoveTrackForToken(@, <<1, 1, 1>>)]
            /\ preview' = [preview EXCEPT ![u] = TRUE]
       ELSE UNCHANGED <<tracks, preview>>
  /\ UNCHANGED <<rendered, updates, obsLast>>
  /\ UNCHANGED <<replVars, chainVars, winVars, moveVars, concVars, capVars, rstVars, finVars,
               unkVars, paceVars, slotVars, bonVars, pvVars>>

\* The user drops the token: _onDragLeftDrop, then preUpdateToken on the
\* user's client.
ObsRequest(u, segmentFt) ==
  /\ nObs < MaxObs
  /\ nObs' = nObs + 1
  /\ IF ~rendered[u]
       THEN /\ updates' = Append(updates, [by |-> u, pending |-> FALSE,
                                           allocations |-> NoUsage])
            /\ obsLast' = [kind |-> "unenforced", by |-> u, segmentFt |-> segmentFt,
                           delta |-> segmentFt]
            /\ UNCHANGED <<tracks, preview>>
       ELSE \E r \in {preUpdateToken(ObsActor, 0, ObsPlan, ObsCombat, tracks[u], NoCarry,
                                     segmentFt, 1)} :
            /\ tracks' = [tracks EXCEPT ![u] = r.track]
            /\ preview' = [preview EXCEPT ![u] = FALSE]
            /\ updates' = IF r.out.kind \in {"accepted", "clamped"} /\ r.out.delta # 0
                            THEN Append(updates, [by |-> u, pending |-> TRUE,
                                                  allocations |-> r.out.allocations])
                            ELSE updates
            /\ obsLast' = [kind |-> r.out.kind, by |-> u, segmentFt |-> segmentFt,
                           delta |-> r.out.delta]
  /\ UNCHANGED rendered
  /\ UNCHANGED <<replVars, chainVars, winVars, moveVars, concVars, capVars, rstVars, finVars,
               unkVars, paceVars, slotVars, bonVars, pvVars>>

\* updateToken on one client, with the options of the update.
updateTokenOn(tr, pv, w) ==
  IF w.pending /\ tr.exists
    THEN [track |-> [tr EXCEPT !.usedBySlot = [k \in UsageKeys |-> @[k] + w.allocations[k]],
                               !.lastCenter = "set"],
          preview |-> FALSE]
    ELSE [track |-> tr, preview |-> pv]

\* The host applies the oldest update and every client runs updateToken.
ObsUpdate ==
  /\ updates # <<>>
  /\ LET w == Head(updates) IN
       /\ tracks' = [o \in Users |-> updateTokenOn(tracks[o], preview[o], w).track]
       /\ preview' = [o \in Users |-> updateTokenOn(tracks[o], preview[o], w).preview]
  /\ updates' = Tail(updates)
  /\ UNCHANGED <<rendered, nObs, obsLast>>
  /\ UNCHANGED <<replVars, chainVars, winVars, moveVars, concVars, capVars, rstVars, finVars,
               unkVars, paceVars, slotVars, bonVars, pvVars>>

NextObs ==
  \/ \E u \in Users : ObsRender(u)
  \/ \E u \in Users : ObsDrag(u)
  \/ \E u \in Users, segmentFt \in Reqs : ObsRequest(u, segmentFt)
  \/ ObsUpdate

SpecObs == InitObs /\ [][NextObs]_vars

\* The step applies an update that user b made.
AppliesUpdateOf(b) ==
  updates # <<>> /\ updates' = Tail(updates) /\ Head(updates).by = b

\* C24: on a client whose panel is not rendered, a position change that
\* another user initiated leaves the client's track and preview as they
\* were, and a change the client itself requests is accepted as made.
C24_InactiveObserverUntouched ==
  [][ \A o \in Users :
        /\ (~rendered[o] /\ ~rendered'[o] /\ \E b \in Users \ {o} : AppliesUpdateOf(b))
             => (tracks'[o] = tracks[o] /\ preview'[o] = preview[o])
        /\ (nObs' # nObs /\ rendered' = rendered /\ ~rendered[o] /\ obsLast' # obsLast
              /\ obsLast'.by = o)
             => (obsLast'.kind = "unenforced" /\ obsLast'.delta = obsLast'.segmentFt) ]_vars

\* What holds: a request made with the panel not rendered is accepted as
\* made and changes nothing on the client that makes it, and the update it
\* sends carries no allocation and changes no track and no preview anywhere.
C24_UnenforcedMoveTouchesNothing ==
  [][ /\ \A o \in Users :
           (nObs' # nObs /\ rendered' = rendered /\ ~rendered[o] /\ Len(updates') > Len(updates)
              /\ updates'[Len(updates')].by = o)
             => /\ obsLast'.kind = "unenforced" /\ obsLast'.delta = obsLast'.segmentFt
                /\ ~updates'[Len(updates')].pending
                /\ tracks' = tracks /\ preview' = preview
      /\ (updates # <<>> /\ updates' = Tail(updates) /\ ~Head(updates).pending)
             => (tracks' = tracks /\ preview' = preview) ]_vars

\* A client's track holds movement that the client never allocated: the
\* update of the other user was added to it.
C24_OthersMoveRecorded ==
  /\ obsLast.by = "u1" /\ obsLast.kind = "accepted"
  /\ tracks["u2"].exists /\ ~rendered["u2"]
  /\ SumUsed(tracks["u2"].usedBySlot, UsageKeys) = SumUsed(tracks["u1"].usedBySlot, UsageKeys)
  /\ SumUsed(tracks["u2"].usedBySlot, UsageKeys) = Ft(10)

-----------------------------------------------------------------------------
(* Part VIII: the instantaneous action and the round change.               *)
(* Specification SpecReset.                                                *)

\* String(instantAction ?? "available") === "available"
isAvailable(v) == v \in {Absent, Available}

\* Array.from(combat.combatants)
CombatantSeq == <<"pc", "npc">>

\* The paths the loop of updateCombat resets, in its order, given the state
\* it read before the loop.
resetPaths(state) ==
  LET cs == SelectSeq(CombatantSeq, LAMBDA c : ~isAvailable(state[<<c, "instantAction">>]))
  IN [i \in 1..Len(cs) |-> <<cs[i], "instantAction">>]

\* The choices of an instantaneous action that are on their way to the flag.
ChoicesOnTheWay ==
  {c \in Combatants :
     \/ \E o \in Players : \E i \in 1..Len(sock[o]) :
          sock[o][i].path = <<c, "instantAction">> /\ sock[o][i].val # Available
     \/ \E i \in 1..Len(gmWrites) :
          gmWrites[i].path = <<c, "instantAction">> /\ gmWrites[i].val # Available}

\* The round of the Combat document changes.  The GM's client, whose copy of
\* the document is the authoritative one, runs its updateCombat hook at
\* once; the change is on its way to every player.  The GM's earlier setFlag
\* calls reach the host before the round change does.
AdvanceRound ==
  /\ cRound < MaxRst
  /\ gmWrites = <<>>
  /\ cRound' = cRound + 1
  /\ hooks' = [o \in Players |-> Append(hooks[o], auth)]
  /\ racing' = ChoicesOnTheWay
  /\ LET ws == resetPaths(auth) IN
       IF ws = <<>>
         THEN UNCHANGED <<pending, gmWrites, hist>>
         ELSE LET h1 == HistSubmit(hist, Holder, {ws[1]}, Available) IN
              /\ pending' = [pending EXCEPT ![Holder][ws[1]] = Available]
              /\ gmWrites' = <<GmWrite(auth, Holder, ws[1], Available,
                                       h1.subm[Holder][ws[1]], TRUE, Tail(ws))>>
              /\ hist' = [HistReach(h1, ws[1], Available) EXCEPT !.intent = Settle(@, auth)]
  /\ UNCHANGED <<auth, snap, sock, nEvents, nWrites, nFails>>
  /\ UNCHANGED <<chainVars, winVars, moveVars, concVars, capVars, obsVars, finVars,
               unkVars, paceVars, slotVars, bonVars, pvVars>>

\* The round change reaches player o: its copy of the document is the one of
\* that moment, and its updateCombat hook runs.
UpdateCombat(o) ==
  /\ hooks[o] # <<>>
  /\ hooks' = [hooks EXCEPT ![o] = Tail(@)]
  /\ snap' = [snap EXCEPT ![o] = Head(hooks[o])]
  /\ LET ws == resetPaths(Head(hooks[o]))
         ps == {ws[i] : i \in 1..Len(ws)}
         h1 == HistSubmit(hist, o, ps, Available)
     IN /\ pending' = [pending EXCEPT ![o] =
                         [p \in Paths |-> IF p \in ps THEN Available ELSE @[p]]]
        /\ sock' = [sock EXCEPT ![o] = @ \o
                      [i \in 1..Len(ws) |->
                         [path |-> ws[i], val |-> Available, n |-> h1.subm[o][ws[i]]]]]
        /\ hist' = [h1 EXCEPT !.intent = Settle(@, auth)]
  /\ UNCHANGED <<auth, gmWrites, nEvents, nWrites, nFails, cRound, racing>>
  /\ UNCHANGED <<chainVars, winVars, moveVars, concVars, capVars, obsVars, finVars,
               unkVars, paceVars, slotVars, bonVars, pvVars>>

\* Updates of the document reach a client in the order the host applied
\* them: a flag update behind a round change waits for it.
NotifyInOrder(o) == hooks[o] = <<>> /\ Notify(o)

NextReset ==
  \/ \E o \in Observers, cid \in Combatants, v \in Vals : ApplyVddInstant(o, cid, v)
  \/ \E o \in Players : Deliver(o)
  \/ PersistOk
  \/ \E o \in Players : NotifyInOrder(o)
  \/ AdvanceRound
  \/ \E o \in Players : UpdateCombat(o)

SpecReset == Init /\ [][NextReset]_vars

\* Every update request of a round change has been processed.
ResetsProcessed ==
  /\ \A o \in Players :
       hooks[o] = <<>> /\ \A i \in 1..Len(sock[o]) : sock[o][i].val # Available
  /\ \A i \in 1..Len(gmWrites) : gmWrites[i].val # Available

AvailableEverywhere(cid) ==
  /\ isAvailable(auth[<<cid, "instantAction">>])
  /\ \A o \in Observers : isAvailable(getStateForRead(o)[<<cid, "instantAction">>])

\* C25: after a round change, once its update requests have been processed,
\* the instantaneous action of every combatant is available in the flag and
\* in every client's read view, as long as none is chosen in the new round.
C25_AvailableAfterRoundChange ==
  \A cid \in Combatants :
    (cRound > 1 /\ ResetsProcessed /\ hist.chosenAt[cid] < cRound)
      => AvailableEverywhere(cid)

\* What holds: for a combatant with no choice on its way when the round
\* changed, the flag and the GM's read view hold available.
C25_AvailableUnlessOnTheWay ==
  \A cid \in Combatants :
    (cRound > 1 /\ ResetsProcessed /\ hist.chosenAt[cid] < cRound /\ cid \notin racing)
      => /\ isAvailable(auth[<<cid, "instantAction">>])
         /\ isAvailable(getStateForRead(Holder)[<<cid, "instantAction">>])

\* A choice of the old round was reset by the round change.
C25_WasReset ==
  /\ cRound = 2 /\ ResetsProcessed /\ racing = {}
  /\ hist.chosenAt["pc"] = 1
  /\ hist.lastOk[<<"pc", "instantAction">>] = Available
  /\ AvailableEverywhere("pc")

\* A choice of the old round reached the flag after the round change.
C25_LateChoice ==
  /\ cRound = 2 /\ ResetsProcessed
  /\ hist.chosenAt["pc"] = 1
  /\ auth[<<"pc", "instantAction">>] \in Vals

-----------------------------------------------------------------------------
(* Part IX: applyVddValue, field "finAct".  Specification SpecFin.         *)

\* The keys a finish-early checkbox can carry.
FinKeys == (1..MaxFinRound) \X (1..internalPhaseCount) \X {"m", "b"}

\* The phase layouts of a round of four action points: four phases of one
\* point, two of two, one of four.
PhaseLayouts == {<<4, 1>>, <<2, 2>>, <<1, 4>>}

\* The test of applyVddValue that accepts any round: the mutant of finActOk.
finActOkAnyRound(planKey, info) ==
  LET slotsPerRealPhase    == clamp(info.apPerPhase, 1, 4)
      realPhaseCount       == clamp(info.phaseCount, 1, 4)
      curRealPhase         == clamp(info.phase, 1, realPhaseCount)
      currentInternalStart == clamp(((curRealPhase - 1) * slotsPerRealPhase) + 1, 1, 4)
      currentInternalEnd   == clamp(currentInternalStart + slotsPerRealPhase - 1, 1, 4)
  IN \E ip \in currentInternalStart..currentInternalEnd :
       \E r \in 1..MaxFinRound : planKey = phaseKey(r, ip, "m") \/ planKey = phaseKey(r, ip, "b")

\* The test `ok` of applyVddValue for the field finAct.
finActOk(planKey, info) ==
  LET slotsPerRealPhase    == clamp(info.apPerPhase, 1, 4)
      realPhaseCount       == clamp(info.phaseCount, 1, 4)
      curRealPhase         == clamp(info.phase, 1, realPhaseCount)
      currentInternalStart == clamp(((curRealPhase - 1) * slotsPerRealPhase) + 1, 1, 4)
      currentInternalEnd   == clamp(currentInternalStart + slotsPerRealPhase - 1, 1, 4)
  IN \E ip \in currentInternalStart..currentInternalEnd :
       planKey = phaseKey(info.round, ip, "m") \/ planKey = phaseKey(info.round, ip, "b")

InitFin ==
  /\ ReplIdle /\ ChainIdle /\ WinIdle /\ MoveIdle /\ ConcIdle /\ CapIdle /\ ObsIdle /\ RstIdle
  /\ UnkIdle /\ PaceIdle /\ SlotIdle /\ BonIdle /\ PvIdle
  /\ \E l \in PhaseLayouts, p \in 1..4 :
       /\ p <= l[1]
       /\ finInfo = [round |-> 1, phase |-> p, phaseCount |-> l[1], apPerPhase |-> l[2]]
  /\ finLast = NoFin

\* The key is in the current slot group: the current round, and an internal
\* slot of the displayed phase.
InCurrentGroup(key) ==
  /\ key[1] = finInfo.round
  /\ key[2] > (finInfo.phase - 1) * finInfo.apPerPhase
  /\ key[2] <= finInfo.phase * finInfo.apPerPhase

\* What the properties read of a request: whether its key is of the current
\* round, whether it is in the current slot group, and whether the handler
\* went on to write.
FinRecord(planKey, ok) ==
  [n |-> nEvents + 1, sameRound |-> planKey[1] = finInfo.round,
   inGroup |-> InCurrentGroup(planKey), ok |-> ok]

\* applyVddValue with field "finAct": the checkbox of selector planKey is
\* set or cleared.
ApplyVddFin(o, cid, planKey, v) ==
  /\ getVisibleCombatants(o, cid)
  /\ IF isGmReadOnlyCombatant(o, cid)
       THEN Rejected(o, cid)
       ELSE IF ~finActOk(planKey, finInfo)
         THEN /\ nEvents < MaxEvents
              /\ nEvents' = nEvents + 1
              /\ finLast' = FinRecord(planKey, FALSE)
              /\ UNCHANGED <<auth, snap, pending, sock, gmWrites, nWrites, nFails, hist>>
              /\ UNCHANGED <<chainVars, winVars, moveVars, concVars, capVars, obsVars,
                             rstVars, finInfo, unkVars, paceVars, slotVars, bonVars, pvVars>>
         ELSE /\ RequestStatePaths(o, cid, PlanFields, v)
              /\ finLast' = FinRecord(planKey, TRUE)
              /\ UNCHANGED <<chainVars, winVars, moveVars, concVars, capVars, obsVars,
                             rstVars, finInfo, unkVars, paceVars, slotVars, bonVars, pvVars>>

NextFin ==
  \/ \E o \in Observers, cid \in Combatants, k \in FinKeys, v \in Vals :
       ApplyVddFin(o, cid, k, v)
  \/ \E o \in Players : Deliver(o)
  \/ PersistOk
  \/ \E o \in Players : Notify(o)

SpecFin == InitFin /\ [][NextFin]_vars

\* C26: a finish-early request on a key outside the current slot group
\* issues no update request and leaves the flag, every pending entry and
\* every queue as they were.
C26_OutsideGroupIgnored ==
  [][ (finLast' # finLast /\ ~finLast'.inGroup)
        => /\ ~finLast'.ok
           /\ UNCHANGED <<auth, snap, pending, sock, gmWrites, nWrites>> ]_vars

\* A request on a key of another round, and one on a key of another phase of
\* the current round, have been ignored.
C26_Witness ==
  /\ finLast.n = 2 /\ ~finLast.ok
  /\ finLast.sameRound /\ ~finLast.inGroup
  /\ finInfo.apPerPhase = 2
  /\ nWrites = 0 /\ auth = NoState

\* A request on a key of the current slot group went through.
C26_WitnessAccepted ==
  /\ finLast.ok /\ finLast.inGroup
  /\ \E cid \in Combatants : auth[<<cid, "finActs">>] \in Vals

-----------------------------------------------------------------------------
(* Part X: the chain evaluator on a plan with unknown action keys, and on  *)
(* the plan with these keys replaced by none.  Specification SpecUnk.      *)

\* What a selector holds: nothing, the range-cost action of the catalog, or
\* a key the catalog does not hold.
SelUnk == {"none", "melee", UnknownKey}

PlansUnk(bonusCount) ==
  {f \in [AllKeys -> SelUnk] :
     \A k \in AllKeys : f[k] # "none" => (k[3] = "m" \/ hasBonusInPhase(k[2], bonusCount))}

\* The plan with every key that the catalog does not hold replaced by none.
withoutUnknown(plan) ==
  [k \in AllKeys |-> IF plan[k] \in DOMAIN actionsMap THEN plan[k] ELSE "none"]

InitUnk ==
  /\ ReplIdle
  /\ WinIdle /\ MoveIdle /\ ConcIdle /\ CapIdle /\ ObsIdle /\ RstIdle /\ FinIdle /\ PaceIdle /\ SlotIdle /\ BonIdle /\ PvIdle
  /\ unk = [NoUnk EXCEPT !.stage = 1]
  /\ curRound \in 1..MaxRound
  /\ curPhase \in 1..internalPhaseCount
  /\ \E bonusCount \in 0..MaxBonus :
       /\ planActions \in PlansUnk(bonusCount)
       /\ phases = buildPhasesForAnalysis(curRound, RoundsShown, bonusCount, planActions)
  /\ \E f \in ConcInputs :
       /\ concentrating = (f.immediateOn \/ f.holdOn)
       /\ capByKey = buildCapByKey(phases, f.immediateOn, f.holdOn, f.pendingIdx)
  /\ finActs \in {S \in SUBSET RangeKeys(planActions) : Cardinality(S) <= MaxFin}
  /\ LoopIdle

\* Both evaluators have run on the plan as given: their outputs are kept, and
\* they are called again with the same arguments but the plan without its
\* unknown keys.
EvalWithoutUnknown ==
  /\ unk.stage = 1
  /\ idx = Len(phases)
  /\ ui.done
  /\ unk' = [stage |-> 2, results |-> results, invalid |-> ui.invalid,
             complete |-> ui.complete, purple |-> ui.purple, need |-> ui.need]
  /\ planActions' = withoutUnknown(planActions)
  /\ idx' = 0 /\ currentAction' = "none" /\ remaining' = 0 /\ spentAP' = 0
  /\ minCost' = 0 /\ maxCost' = 0 /\ isRange' = FALSE
  /\ spentPhaseIdxs' = {} /\ results' = <<>> /\ brk' = NoBrk /\ ui' = NoUI
  /\ UNCHANGED <<phases, capByKey, finActs, concentrating, curRound, curPhase>>
  /\ UNCHANGED <<replVars, winVars, moveVars, concVars, capVars, obsVars, rstVars, finVars,
                 paceVars, slotVars, bonVars, pvVars>>

NextUnk == EvalStep \/ Analyze \/ EvalWithoutUnknown

SpecUnk == InitUnk /\ [][NextUnk]_vars

\* Both runs are over.
ComparedUnk == unk.stage = 2 /\ idx = Len(phases) /\ ui.done

\* C27: the outputs for a plan with unknown keys are those for the plan with
\* the unknown keys replaced by none: the per-slot results, and the complete,
\* invalid, penalty and expected-action indexes.
C27_UnknownAsNone ==
  ComparedUnk =>
    /\ results = unk.results
    /\ ui.complete = unk.complete
    /\ ui.purple = unk.purple
    /\ ui.need = unk.need
    /\ ui.invalid = unk.invalid

\* What holds: all the outputs but the invalid index are the same.
C27_UnknownAsNoneButInvalid ==
  ComparedUnk =>
    /\ results = unk.results
    /\ ui.complete = unk.complete
    /\ ui.purple = unk.purple
    /\ ui.need = unk.need

\* The invalid index differs, on the selectors of the current phase only.
C27_InvalidOnlyInCurrentPhase ==
  ComparedUnk =>
    \A k \in AllKeys :
      (k \in ui.invalid) # (k \in unk.invalid) => (k[1] = curRound /\ k[2] = curPhase)

\* A plan with an unknown key in the bonus selector of the current phase,
\* after a chain that broke right before it: the index holds the bonus
\* selector for the plan as given and the main selector for the other.
C27_BonusMarked ==
  /\ ComparedUnk
  /\ <<curRound, curPhase, "b">> \in unk.invalid
  /\ <<curRound, curPhase, "b">> \notin ui.invalid
  /\ <<curRound, curPhase, "m">> \in ui.invalid
  /\ <<curRound, curPhase, "m">> \notin unk.invalid

\* A plan with an unknown key whose outputs are all the same, with a broken
\* chain among them.
C27_SameOutputs ==
  /\ ComparedUnk
  /\ results = unk.results /\ ui.invalid = unk.invalid
  /\ \E i \in 1..Len(results) : results[i].broke
  /\ \E k \in AllKeys : planActions[k] = "none" /\ k \in ui.invalid

-----------------------------------------------------------------------------
(* Part XI: the pace of a round total (explicit move) and of the feet used *)
(* in a slot group (incidental move).  Specification SpecPace.             *)

\* The pace labels of a movement option, "none" for no label.
PaceLabels == {"none", "Creep", "Walk", "Jog", "Run", "Sprint", "Dash"}

\* Distances: 0, and around every threshold of a BMR of 16 ft and of 20 ft:
\* on it, within the tolerance above it, and beyond the tolerance.
PaceDists ==
  {0} \cup {Ft(n) + e : n \in {1, 2, 4, 5, 8, 10, 12, 15, 16, 20, 32, 40, 48, 60, 64,
                               80, 100},
                        e \in {0, 3, 6}}

PaceBmrs == {Ft(16), Ft(20)}

InitPace ==
  /\ ReplIdle /\ ChainIdle /\ WinIdle /\ MoveIdle /\ ConcIdle /\ CapIdle /\ ObsIdle /\ RstIdle
  /\ FinIdle /\ UnkIdle /\ SlotIdle /\ BonIdle /\ PvIdle
  /\ \/ paceIn \in [mode : {"move"}, dist : PaceDists, bmr : PaceBmrs, dashOk : BOOLEAN,
                    maxPace : PaceLabels, concOn : {0}]
     \/ paceIn \in [mode : {"incidental"}, dist : PaceDists, bmr : PaceBmrs,
                    dashOk : {FALSE}, maxPace : PaceLabels, concOn : 0..MaxPaceConc]
  /\ paceOut = NoPaceOut

\* updateToken, mode "move": the pace of the round total.
ClassifyMove ==
  /\ paceIn.mode = "move"
  /\ ~paceOut.done
  /\ paceOut' = [NoPaceOut EXCEPT
       !.done = TRUE,
       !.pace = inferPaceFromBmrTable(paceIn.dist, paceIn.bmr, paceIn.dashOk, paceIn.maxPace),
       !.capMult = capMultiplierForBmrTable(paceIn.dashOk, paceIn.maxPace)]
  /\ UNCHANGED paceIn
  /\ UNCHANGED <<replVars, chainVars, winVars, moveVars, concVars, capVars, obsVars, rstVars,
                 finVars, unkVars, slotVars, bonVars, pvVars>>

\* preUpdateToken, mode B, and updateToken, mode "incidental": the cap of
\* the slot group, and the pace and penalty of the feet used in it.
ClassifyIncidental ==
  /\ paceIn.mode = "incidental"
  /\ ~paceOut.done
  /\ LET capPace == computeIncidentalCapPace(paceIn.maxPace, paceIn.concOn)
         bmrEffective == IF paceIn.concOn = 1 THEN paceIn.bmr \div 2 ELSE paceIn.bmr
         capFt == Max0((bmrEffective * phasePaceCapFrac(capPace)) \div 8)
         inf == inferPhasePacePenalty(paceIn.dist, bmrEffective, capPace)
     IN paceOut' = [NoPaceOut EXCEPT !.done = TRUE, !.pace = inf.pace,
                                     !.penalty = inf.penalty, !.capPace = capPace,
                                     !.capFt = capFt, !.bmrEffective = bmrEffective]
  /\ UNCHANGED paceIn
  /\ UNCHANGED <<replVars, chainVars, winVars, moveVars, concVars, capVars, obsVars, rstVars,
                 finVars, unkVars, slotVars, bonVars, pvVars>>

NextPace == ClassifyMove \/ ClassifyIncidental

SpecPace == InitPace /\ [][NextPace]_vars

\* The bands of the BMR table: label and twice the multiplier.
Bands ==
  {<<"Creep", 1>>, <<"Walk", 2>>, <<"Jog", 4>>, <<"Run", 6>>, <<"Sprint", 8>>, <<"Dash", 10>>}

\* The bands the cap of the classification allows.
AllowedBands == {t \in Bands : t[2] <= paceOut.capMult}

\* The slowest band of S whose threshold, raised by tol, is at least the
\* distance; the fastest band of S when there is none.
SlowestBand(S, tol) ==
  LET fits == {t \in S : 2 * paceIn.dist <= paceIn.bmr * t[2] + 2 * tol}
  IN IF fits # {} THEN CHOOSE t \in fits : \A q \in fits : t[2] <= q[2]
     ELSE CHOOSE t \in S : \A q \in S : q[2] <= t[2]

MoveClassified == paceIn.mode = "move" /\ paceOut.done

\* C28: for every round total d >= 0 the pace is the slowest allowed band
\* whose multiple of the BMR is at least d.
C28_SlowestBand ==
  (MoveClassified
     /\ \E t \in AllowedBands : 2 * paceIn.dist <= paceIn.bmr * t[2])
    => paceOut.pace = SlowestBand(AllowedBands, 0)[1]

\* C28 as the code has it: for d > 0 the slowest allowed band whose
\* threshold plus the tolerance of 0.05 ft is at least d, the fastest
\* allowed band when there is none; a total of 0 is shown as Walk.
C28_SlowestBandWithin ==
  MoveClassified =>
    paceOut.pace = IF paceIn.dist = 0 THEN "Walk"
                   ELSE SlowestBand(AllowedBands, MOVE_EPS_FT)[1]

\* The examples of the claim, with every band up to Sprint allowed.
C28_Witness ==
  /\ MoveClassified /\ paceIn.bmr = Ft(16) /\ paceIn.dist = Ft(16)
  /\ paceIn.maxPace = "none" /\ ~paceIn.dashOk
  /\ paceOut.pace = "Walk"

C28_WitnessCreep ==
  /\ MoveClassified /\ paceIn.bmr = Ft(16) /\ paceIn.dist = Ft(8)
  /\ paceOut.pace = "Creep" /\ paceOut.capMult = 10

\* A total above the Creep threshold, within the tolerance, is Creep; a
\* total beyond the cap is shown with the fastest allowed band.
C28_WitnessTolerance ==
  /\ MoveClassified /\ paceIn.bmr = Ft(16) /\ paceIn.dist = Ft(8) + 3
  /\ paceOut.pace = "Creep" /\ paceOut.capMult = 8

C28_WitnessCap ==
  /\ MoveClassified /\ paceIn.bmr = Ft(16) /\ paceIn.dist = Ft(40)
  /\ paceIn.maxPace = "Jog" /\ paceOut.pace = "Jog"

IncidentalClassified == paceIn.mode = "incidental" /\ paceOut.done

\* The tiers of the incidental table: label, eighths of the effective BMR,
\* penalty.
Tiers == {<<"Creep", 1, 0>>, <<"Walk", 2, -25>>, <<"Jog", 4, -50>>, <<"Run", 6, -75>>}

\* The cap pace of the claim: Run, lowered to the load-derived pace, and to
\* Creep with two or more concentration flags.
ExpectedCapPace ==
  IF paceIn.concOn >= 2 THEN "Creep"
  ELSE IF paceIn.maxPace \in {"Creep", "Walk", "Jog"} THEN paceIn.maxPace
  ELSE "Run"

ExpectedEffectiveBmr == IF paceIn.concOn = 1 THEN paceIn.bmr \div 2 ELSE paceIn.bmr

\* The slowest tier, up to the cap pace, whose threshold raised by tol is at
\* least the distance.
SlowestTier(tol) ==
  LET capFrac == (CHOOSE t \in Tiers : t[1] = ExpectedCapPace)[2]
      fits == {t \in Tiers : /\ t[2] <= capFrac
                             /\ 8 * paceIn.dist <= t[2] * ExpectedEffectiveBmr + 8 * tol}
  IN CHOOSE t \in fits : \A q \in fits : t[2] <= q[2]

CapOfClaim ==
  /\ paceOut.capPace = ExpectedCapPace
  /\ 8 * paceOut.capFt = ExpectedEffectiveBmr * (CHOOSE t \in Tiers : t[1] = ExpectedCapPace)[2]

\* C29: the cap is the effective BMR times the fraction of the cap pace, and
\* a distance within the cap has the pace and the penalty of the slowest
\* tier whose threshold is at least the distance.
C29_CapAndSlowestTier ==
  IncidentalClassified =>
    /\ CapOfClaim
    /\ paceIn.dist <= paceOut.capFt
         => /\ paceOut.pace = SlowestTier(0)[1]
            /\ paceOut.penalty = SlowestTier(0)[3]

\* C29 as the code has it: the threshold of a tier is raised by the
\* tolerance of 0.05 ft.
C29_CapAndSlowestTierWithin ==
  IncidentalClassified =>
    /\ CapOfClaim
    /\ paceIn.dist <= paceOut.capFt
         => /\ paceOut.pace = SlowestTier(MOVE_EPS_FT)[1]
            /\ paceOut.penalty = SlowestTier(MOVE_EPS_FT)[3]

\* One concentration flag, BMR 16 ft: the cap is 6 ft, and 3 ft is a Jog.
C29_Witness ==
  /\ IncidentalClassified /\ paceIn.bmr = Ft(16) /\ paceIn.concOn = 1
  /\ paceIn.maxPace = "none" /\ paceOut.capFt = Ft(6)
  /\ paceIn.dist = Ft(4) /\ paceOut.pace = "Jog" /\ paceOut.penalty = -50

\* 2.03 ft with a BMR of 16 ft is shown as Creep.
C29_WitnessTolerance ==
  /\ IncidentalClassified /\ paceIn.bmr = Ft(16) /\ paceIn.concOn = 0
  /\ paceIn.dist = Ft(2) + 3 /\ paceOut.capFt = Ft(12)
  /\ paceOut.pace = "Creep" /\ paceOut.penalty = 0

-----------------------------------------------------------------------------
(* Part XII: the slot layout.  Specification SpecSlots: buildPhases for    *)
(* every bonusCount and for 1, 2 and 4 slots a round.                      *)

InitSlots ==
  /\ ReplIdle /\ ChainIdle /\ WinIdle /\ MoveIdle /\ ConcIdle /\ CapIdle /\ ObsIdle /\ RstIdle
  /\ FinIdle /\ UnkIdle /\ PaceIdle /\ BonIdle /\ PvIdle
  /\ slotIn \in [fn : {"buildPhases"}, baseRound : 1..MaxBaseRound, roundsShown : 1..MaxShown,
                 bonusCount : 0..MaxBonusCount, phaseCount : {1, 2, 4}]
  /\ slotOut = NoSlotOut

\* One call of buildPhases.
BuildPhases ==
  /\ slotIn.fn = "buildPhases"
  /\ ~slotOut.done
  /\ slotOut' = [done |-> TRUE,
                 phases |-> buildPhases(slotIn.baseRound, slotIn.roundsShown,
                                        slotIn.bonusCount, slotIn.phaseCount)]
  /\ UNCHANGED slotIn
  /\ UNCHANGED <<replVars, chainVars, winVars, moveVars, concVars, capVars, obsVars, rstVars,
                 finVars, unkVars, paceVars, bonVars, pvVars>>

NextSlots == BuildPhases

SpecSlots == InitSlots /\ [][NextSlots]_vars

PhasesBuilt == slotIn.fn = "buildPhases" /\ slotOut.done

\* C31: for every bonusCount in 0..4, each slot p in 1..4 of every round of
\* the list has a bonus sub-slot if and only if p >= 5 - bonusCount.
C31_BonusFromTheLastSlot ==
  (PhasesBuilt /\ slotIn.bonusCount \in 0..4) =>
    /\ Len(slotOut.phases) = slotIn.roundsShown * slotIn.phaseCount
    /\ \A n \in 1..Len(slotOut.phases) :
         LET ph == slotOut.phases[n] IN
         /\ ph.phase \in 1..4
         /\ ph.hasBonus <=> ph.phase >= 5 - slotIn.bonusCount

\* bonusCount 1 and four slots a round: slot 4 alone has a bonus sub-slot.
C31_Witness ==
  /\ PhasesBuilt /\ slotIn.bonusCount = 1 /\ slotIn.phaseCount = 4
  /\ {slotOut.phases[n].phase : n \in {i \in 1..Len(slotOut.phases) : slotOut.phases[i].hasBonus}}
       = {4}

\* bonusCount 4: every slot has one; bonusCount 0: none has.
C31_WitnessAll ==
  /\ PhasesBuilt /\ slotIn.bonusCount = 4 /\ slotIn.phaseCount = 4
  /\ \A n \in 1..Len(slotOut.phases) : slotOut.phases[n].hasBonus

C31_WitnessNone ==
  /\ PhasesBuilt /\ slotIn.bonusCount = 0 /\ slotIn.phaseCount = 4
  /\ \A n \in 1..Len(slotOut.phases) : ~slotOut.phases[n].hasBonus

-----------------------------------------------------------------------------
(* Part XIII: the chain evaluator called twice with the same arguments.    *)
(* Specification SpecTwice.                                                *)

InitTwice ==
  /\ ReplIdle
  /\ WinIdle /\ MoveIdle /\ ConcIdle /\ CapIdle /\ ObsIdle /\ RstIdle /\ FinIdle /\ PaceIdle
  /\ SlotIdle /\ BonIdle /\ PvIdle
  /\ unk = [NoUnk EXCEPT !.stage = 1]
  /\ curRound \in 1..MaxRound
  /\ curPhase \in 1..internalPhaseCount
  /\ \E bonusCount \in {0, MaxBonus} :
       /\ planActions \in Plans(bonusCount)
       /\ phases = buildPhasesForAnalysis(curRound, RoundsShown, bonusCount, planActions)
  /\ \E immediateOn \in BOOLEAN :
       /\ concentrating = immediateOn
       /\ capByKey = buildCapByKey(phases, immediateOn, FALSE, 0)
  /\ finActs \in {S \in SUBSET RangeKeys(planActions) : Cardinality(S) <= MaxFin}
  /\ LoopIdle

\* A second call that starts from what the first call left in the chain
\* variables.
EvalAgainFromLastChain ==
  /\ unk.stage = 1
  /\ idx = Len(phases)
  /\ ui.done
  /\ unk' = [stage |-> 2, results |-> results, invalid |-> ui.invalid,
             complete |-> ui.complete, purple |-> ui.purple, need |-> ui.need]
  /\ idx' = 0 /\ results' = <<>> /\ brk' = NoBrk /\ ui' = NoUI
  /\ UNCHANGED <<currentAction, remaining, spentAP, minCost, maxCost, isRange, spentPhaseIdxs>>
  /\ UNCHANGED inputVars
  /\ UNCHANGED <<replVars, winVars, moveVars, concVars, capVars, obsVars, rstVars, finVars,
                 paceVars, slotVars, bonVars, pvVars>>

\* Both evaluators have run: their outputs are kept, and they are called
\* again with the same arguments.  The variables of a call are its own
\* (2049-2061, 2200-2204).
EvalAgain ==
  /\ unk.stage = 1
  /\ idx = Len(phases)
  /\ ui.done
  /\ unk' = [stage |-> 2, results |-> results, invalid |-> ui.invalid,
             complete |-> ui.complete, purple |-> ui.purple, need |-> ui.need]
  /\ idx' = 0 /\ currentAction' = "none" /\ remaining' = 0 /\ spentAP' = 0
  /\ minCost' = 0 /\ maxCost' = 0 /\ isRange' = FALSE
  /\ spentPhaseIdxs' = {} /\ results' = <<>> /\ brk' = NoBrk /\ ui' = NoUI
  /\ UNCHANGED inputVars
  /\ UNCHANGED <<replVars, winVars, moveVars, concVars, capVars, obsVars, rstVars, finVars,
                 paceVars, slotVars, bonVars, pvVars>>

NextTwice == EvalStep \/ Analyze \/ EvalAgain

SpecTwice == InitTwice /\ [][NextTwice]_vars

\* Both calls are over.
EvaluatedTwice == unk.stage = 2 /\ idx = Len(phases) /\ ui.done

-----------------------------------------------------------------------------
(* Requests checked before an earlier one is committed (specification      *)
(* SpecMove)                                                               *)

\* The slot caps of the last request are those of the track's slot group.
CapsOfTrack ==
  /\ track.exists
  /\ mvLast.mode \in {"move", "incidental"}
  /\ track.phaseKey = <<mvLast.round, mvLast.start, mvLast.end>>

\* The usage of every slot of the group is within the cap computed for it.
UsageWithinSlotCaps ==
  CapsOfTrack =>
    \A k \in UsageKeys :
      mvLast.perSlotMax[k] > 0 => track.usedBySlot[k] <= mvLast.perSlotMax[k]

\* updateToken of an accepted request adds its allocation to the track: of a
\* request that changes the position, in the round it was made in.
AllocationAdded ==
  (/\ inflight # <<>> /\ Len(inflight') < Len(inflight)
   /\ Head(inflight).delta # 0 /\ track.exists) =>
    \A k \in UsageKeys :
      track'.usedBySlot[k] = track.usedBySlot[k] + Head(inflight).allocations[k]

\* C33: in every reachable state, requests checked before an earlier one is
\* committed included, the usage recorded for a slot is within the cap
\* computed for that slot, and the allocation of every accepted request is
\* added to the track, once.
C33_WithinCapAddedOnce ==
  /\ []UsageWithinSlotCaps
  /\ [][AllocationAdded]_vars

\* What holds of the second part: an update that changes the position and
\* comes back in its round adds its allocation, once.
C33_AllocationAddedWhenApplied == [][AllocationAdded]_vars

\* Two requests checked against the same usage, both committed.
C33_Overcommitted ==
  /\ CapsOfTrack /\ inflight = <<>> /\ nReq = 2
  /\ \E k \in UsageKeys :
       mvLast.perSlotMax[k] > 0 /\ track.usedBySlot[k] > mvLast.perSlotMax[k]

\* What holds: a request is allocated no more than what the caps leave of the
\* usage it reads.
C33_EachRequestWithinCaps ==
  (mvLast.mode \in {"move", "incidental"} /\ mvLast.kind \in {"accepted", "clamped"}) =>
    \A k \in UsageKeys : mvLast.allocations[k] <= mvLast.perSlotMax[k]

-----------------------------------------------------------------------------
(* Where a chain starts (specification SpecChain)                          *)

\* The costed action a chain would start with at phase i: that of the main
\* selector, or else that of the bonus selector.
Costed(a) == a \in DOMAIN actionsMap /\ actionsMap[a].maxCost > 0

FirstCosted(i) ==
  LET km == phaseKey(phases[i].round, phases[i].phase, "m")
      kb == phaseKey(phases[i].round, phases[i].phase, "b")
  IN IF Costed(planActions[km]) THEN planActions[km]
     ELSE IF phases[i].hasBonus /\ Costed(planActions[kb]) THEN planActions[kb]
     ELSE "none"

\* The capacity of the selectors of phase i that hold action a.
CapacityFor(i, a) ==
  LET km == phaseKey(phases[i].round, phases[i].phase, "m")
      kb == phaseKey(phases[i].round, phases[i].phase, "b")
  IN (IF planActions[km] = a THEN capForKey(km) ELSE 0)
     + (IF phases[i].hasBonus /\ planActions[kb] = a THEN capForKey(kb) ELSE 0)

\* The last iteration worked on a chain of action a that the phase paid into.
PaidInto(a) == brk.act = a /\ ~brk.gap /\ brk.kind # "idle"

\* C34: a strictly-past slot that holds a costed action, with no chain
\* active there or with the previous chain ended at that very slot, starts a
\* chain of that action and contributes its capacity.
C34_StartsWhereNoChain ==
  (/\ idx >= 1 /\ Before(idx) /\ FirstCosted(idx) # "none"
   /\ (brk.kind = "idle" \/ brk.gap \/ PaidInto(FirstCosted(idx))))
    => /\ PaidInto(FirstCosted(idx))
       /\ results[idx].contrib = CapacityFor(idx, FirstCosted(idx))
       /\ results[idx].contrib > 0

\* What holds: with no chain active when the slot is reached, the chain
\* starts there.
C34_StartsWhereNoneOnEntry ==
  (/\ idx >= 1 /\ Before(idx) /\ FirstCosted(idx) # "none"
   /\ (brk.kind = "idle" \/ PaidInto(FirstCosted(idx))))
    => /\ PaidInto(FirstCosted(idx))
       /\ results[idx].contrib = CapacityFor(idx, FirstCosted(idx))
       /\ results[idx].contrib > 0

\* A chain that ends at a past slot which holds another costed action: that
\* slot contributes nothing and the evaluator tracks no chain after it.
C34_NotStartedAtBreak ==
  /\ idx >= 1 /\ Before(idx) /\ FirstCosted(idx) # "none"
  /\ brk.gap /\ currentAction = "none"
  /\ results[idx].contrib = 0

\* A chain started at the first past slot, one capacity paid.
C34_StartedAtFirst ==
  /\ idx = 1 /\ Before(idx) /\ PaidInto(FirstCosted(idx))
  /\ results[idx].contrib = CapacityFor(idx, FirstCosted(idx))

\* The iteration left the slot as it found it: no contribution and no mark.
Untouched ==
  /\ results[idx].contrib = 0
  /\ ~results[idx].broke /\ ~results[idx].lost /\ results[idx].penalty = 0
  /\ ~brk.marked

\* The chain the iteration worked on has a strictly-past slot among the
\* slots that paid into it.
BegunInPast == \E j \in brk.live \cup brk.ended : Before(j)

\* C35: the evaluator starts a chain at a strictly-past slot only: the
\* iteration on the current slot or on a later one leaves contribution 0 and
\* marks no slot broke or lost and records no penalty, unless the slot
\* continues, or ends, a chain that started in a strictly-past slot.
C35_NoStartAtOrAfterNow ==
  (idx >= 1 /\ ~Before(idx)) =>
     \/ Untouched /\ brk.kind = "idle"
     \/ brk.kind # "idle" /\ BegunInPast

\* A costed action first selected in the current slot, and again in the
\* slots after it: nothing is tracked and nothing is marked.
C35_Witness ==
  /\ idx = Len(phases) /\ AtNow(1)
  /\ \A j \in 1..idx : FirstCosted(j) # "none"
  /\ \A j \in 1..idx : results[j].contrib = 0 /\ ~results[j].broke /\ ~results[j].lost
  /\ currentAction = "none"

\* A chain begun in the past that the current slot continues.
C35_WitnessContinued ==
  /\ idx >= 2 /\ AtNow(idx) /\ brk.kind = "continue" /\ BegunInPast
  /\ results[idx].contrib > 0

-----------------------------------------------------------------------------
(* The cap of the round total (specification SpecPace)                     *)

\* Twice the multiplier of dash eligibility and of the load-derived label;
\* with no label there is the first only.
DashMult == IF paceIn.dashOk THEN 10 ELSE 8
LoadMult == (CHOOSE t \in Bands : t[1] = paceIn.maxPace)[2]

SmallerOfBoth ==
  IF paceIn.maxPace = "none" THEN DashMult
  ELSE IF LoadMult < DashMult THEN LoadMult ELSE DashMult

\* C36: for every combination of dash eligibility and load-derived pace
\* label, the cap multiplier of the round is the smaller of the dash
\* multiplier (5 when eligible, 4 otherwise) and the multiplier of the label.
C36_SmallerOfDashAndLoad ==
  MoveClassified => paceOut.capMult = SmallerOfBoth

\* C36 as the code has it: the smaller of the two, but 5 when dash is
\* eligible and the label is Sprint.
C36_SmallerButSprintWithDash ==
  MoveClassified =>
    paceOut.capMult = IF paceIn.dashOk /\ paceIn.maxPace = "Sprint" THEN 10 ELSE SmallerOfBoth

\* Dash eligible, label Sprint: the cap is 5 x BMR.
C36_Witness ==
  MoveClassified /\ paceIn.dashOk /\ paceIn.maxPace = "Sprint" /\ paceOut.capMult = 10

\* Dash eligible, label Jog: the label is the smaller, 2 x BMR.
C36_WitnessLoad ==
  MoveClassified /\ paceIn.dashOk /\ paceIn.maxPace = "Jog" /\ paceOut.capMult = 4

\* Dash not eligible, label Dash: the dash multiplier is the smaller, 4 x BMR.
C36_WitnessDash ==
  MoveClassified /\ ~paceIn.dashOk /\ paceIn.maxPace = "Dash" /\ paceOut.capMult = 8

(***************************************************************************)
(* Part XIV: the bonusCount input.  One combatant's record as the client   *)
(* that changes it reads it: the flag for the GM, the flag under the       *)
(* client's own pending writes for a player.  Round 1 is shown alone, so   *)
(* the slots are the four of round 1 with their bonus selectors.           *)
(***************************************************************************)

BonMain(p) == phaseKey(1, p, "m")
BonBonus(p) == phaseKey(1, p, "b")

\* applyAutofillToPlan, first loop: a selection flagged as auto-filled is
\* overwritten with "none", its cost with null and its flag with false.
autofillCleaned(pActions, pAuto, pCosts) ==
  [planActions |-> [k \in DOMAIN pActions |->
                      IF k \in pAuto THEN "none" ELSE pActions[k]],
   planAuto    |-> {},
   planCosts   |-> [k \in DOMAIN pCosts |-> IF k \in pAuto THEN 0 ELSE pCosts[k]]]

\* applyAutofillToPlan, inner loop from slot j on for the start slot i.
RECURSIVE autofillForward(_, _, _, _, _, _, _)
autofillForward(st, keys, autoPrev, cap, i, j, left) ==
  IF j > Len(keys) \/ left <= 0 THEN st
  ELSE LET pk          == keys[j]
           ahead       == st.planActions[pk]
           aheadIsStart == ahead # "none" /\ Costed(ahead) /\ pk \notin autoPrev
           actionKey   == st.planActions[keys[i]]
           filled      == IF ahead = "none"
                            THEN [st EXCEPT !.planActions[pk] = actionKey,
                                            !.planAuto = IF pk # keys[i] THEN @ \cup {pk}
                                                                         ELSE @ \ {pk}]
                            ELSE st
       IN IF j # i /\ aheadIsStart THEN st
          ELSE autofillForward(filled, keys, autoPrev, cap, i, j + 1, left - cap)

\* applyAutofillToPlan, outer loop from slot i on: costForStartSlot stores
\* the lower cost of the start slot, then the selection is carried forward
\* until that cost is paid.
RECURSIVE autofillFrom(_, _, _, _, _)
autofillFrom(st, keys, autoPrev, cap, i) ==
  IF i > Len(keys) THEN st
  ELSE LET startKey  == keys[i]
           actionKey == st.planActions[startKey]
       IN IF ~(actionKey # "none" /\ Costed(actionKey))
            THEN autofillFrom(st, keys, autoPrev, cap, i + 1)
            ELSE LET mn  == actionsMap[actionKey].minCost
                     st1 == [st EXCEPT !.planCosts[startKey] = mn]
                 IN IF mn <= 0
                      THEN autofillFrom(st1, keys, autoPrev, cap, i + 1)
                      ELSE autofillFrom(
                             autofillForward([st1 EXCEPT !.planAuto = @ \ {startKey}],
                                             keys, autoPrev, cap, i, i, Half(mn)),
                             keys, autoPrev, cap, i + 1)

applyAutofillToPlan(phs, conc, pActions, pAuto, pCosts) ==
  autofillFrom(autofillCleaned(pActions, pAuto, pCosts),
               slotKeys(phs), pAuto, baseCap(conc), 1)

\* The plans the input is changed over: the first two main selectors and the
\* bonus selector of the last slot, the second main selector manual or
\* auto-filled.
BonPlans ==
  {[k \in BonKeys |-> IF k = BonMain(1) THEN a
                      ELSE IF k = BonMain(2) THEN b
                      ELSE IF k = BonBonus(internalPhaseCount) THEN c ELSE "none"] :
     a \in Sel, b \in Sel, c \in {"none", "melee"}}

InitBonus ==
  /\ ReplIdle /\ ChainIdle /\ WinIdle /\ MoveIdle /\ ConcIdle /\ CapIdle /\ ObsIdle /\ RstIdle
  /\ FinIdle /\ UnkIdle /\ PaceIdle /\ SlotIdle /\ PvIdle
  /\ \E pa \in BonPlans, au \in SUBSET {BonMain(2)}, bc \in 0..MaxBonusCount,
        conc \in BOOLEAN, fin \in SUBSET {BonMain(1)} :
       /\ \A k \in au : pa[k] # "none"
       /\ \A k \in fin : pa[k] = "melee"
       /\ cd = [bonusCount |-> bc, planActions |-> pa, planAuto |-> au,
                planCosts |-> [k \in BonKeys |->
                                 IF pa[k] # "none" /\ k \notin au
                                   THEN actionsMap[pa[k]].minCost ELSE 0],
                finActs |-> fin, concentrating |-> conc]
  /\ cdLast = [kind |-> "none", was |-> NoCd]

\* An "input" event of the spinner, or one of its +/- buttons: setBonusCount
\* writes the bonusCount path.
SetBonusCount(n) ==
  /\ cd' = [cd EXCEPT !.bonusCount = clamp(n, 0, 4)]
  /\ cdLast' = [kind |-> "input", was |-> cd]
  /\ UNCHANGED <<replVars, chainVars, winVars, moveVars, concVars, capVars, obsVars, rstVars,
                 finVars, unkVars, paceVars, slotVars, pvVars>>

\* A "change" event of an input of data-field bonusCount: the spinner
\* handler writes bonusCount, and the listener on the root writes it again
\* and then the three plan maps applyAutofillToPlan returns.
BonusCountChange(n) ==
  LET newVal == clamp(n, 0, 4)
      phs    == buildPhases(1, 1, newVal, internalPhaseCount)
  IN \E updated \in {applyAutofillToPlan(phs, cd.concentrating, cd.planActions,
                                         cd.planAuto, cd.planCosts)} :
       /\ cd' = [cd EXCEPT !.bonusCount = newVal,
                           !.planActions = updated.planActions,
                           !.planAuto = updated.planAuto,
                           !.planCosts = updated.planCosts]
       /\ cdLast' = [kind |-> "change", was |-> cd]
       /\ UNCHANGED <<replVars, chainVars, winVars, moveVars, concVars, capVars, obsVars,
                      rstVars, finVars, unkVars, paceVars, slotVars, pvVars>>

NextBonus ==
  \E n \in 0..MaxBonusCount : SetBonusCount(n) \/ BonusCountChange(n)

SpecBonus == InitBonus /\ [][NextBonus]_vars

PlanKept ==
  /\ cd.planActions = cdLast.was.planActions
  /\ cd.planAuto = cdLast.was.planAuto
  /\ cd.planCosts = cdLast.was.planCosts
  /\ cd.finActs = cdLast.was.finActs

\* C37: an event that changes bonusCount leaves planActions, planAuto,
\* planCosts and the finish-early flags as they were, so no selection
\* is auto-filled or auto-cleared.
C37_OnlyBonusCountWritten ==
  (cdLast.kind # "none" /\ cd.bonusCount # cdLast.was.bonusCount) => PlanKept

\* C37, the part that holds: setBonusCount writes nothing but bonusCount.
C37_SetBonusCountKeepsPlan == cdLast.kind = "input" => PlanKept

\* C37, the auto-fill: a selector that was empty holds a selection right
\* after bonusCount changed.  (The outer loop comes to every selector it
\* filled as a start slot of its own, which takes the flag off again.)
C37_AutoFilled ==
  /\ cdLast.kind = "change" /\ cd.bonusCount # cdLast.was.bonusCount
  /\ \E k \in BonKeys : cdLast.was.planActions[k] = "none" /\ cd.planActions[k] # "none"

\* C37, the auto-clear: a selection flagged as auto-filled is gone right
\* after bonusCount changed.
C37_AutoCleared ==
  /\ cdLast.kind = "change" /\ cd.bonusCount # cdLast.was.bonusCount
  /\ \E k \in BonKeys : cdLast.was.planActions[k] # "none" /\ cd.planActions[k] = "none"

(***************************************************************************)
(* Part XV: the drag preview across a round change.  The movement run of   *)
(* Part IV with the token dragged in between: refreshToken keeps the       *)
(* _movePreview entry of the token, and updateCombat ends the round.       *)
(***************************************************************************)

InitRound ==
  /\ ReplIdle /\ ChainIdle /\ WinIdle /\ ConcIdle /\ CapIdle /\ ObsIdle /\ RstIdle
  /\ FinIdle /\ UnkIdle /\ PaceIdle /\ SlotIdle /\ BonIdle /\ PvIdle
  /\ actor = [bmr |-> Ft(16), load |-> "light", dashPer |-> 0, maxPace |-> "none",
              instant |-> TRUE, concOn |-> 0]
  /\ scene = 0
  /\ mvPlan \in MovePlans
  /\ combat \in [round : {1}, phase : {1}, spr : Sprs]
  /\ track = NoTrack /\ carry = NoCarry /\ inflight = <<>> /\ mvLast = NoMove
  /\ nReq = 0 /\ moved = NoUsage

\* refreshToken while the token is dragged segmentFt away from its committed
\* position (0: it is back on it): _updateMovePreviewForToken, which applies
\* the rules of preUpdateToken and tags the entry with the current round.
RefreshToken(segmentFt) ==
  /\ nReq < MaxReq
  /\ \E r \in {preUpdateToken(actor, scene, mvPlan, combat, track, carry, segmentFt, 1)} :
       LET rng == getCurrentInternalSlotRange(combat.phase, combat.spr)
           disabled == r.out.kind = "disabled"
           tr1 == IF disabled THEN track
                  ELSE IF ~track.exists \/ track.phaseKey # <<combat.round, rng.start, rng.end>>
                            \/ track.lastCenter = "null"
                    THEN resetMoveTrackForToken(track, <<combat.round, rng.start, rng.end>>)
                    ELSE track
       IN /\ track' = tr1
          /\ mvPreview' = IF disabled \/ segmentFt <= 0 THEN 0
                          ELSE IF r.out.kind \in {"unenforced", "cap-load"} THEN mvPreview
                          ELSE IF r.out.kind = "cap-phase" THEN 0
                          ELSE combat.round
  /\ UNCHANGED <<actor, scene, mvPlan, combat, carry, inflight, nReq, moved, mvLast>>
  /\ UNCHANGED <<replVars, chainVars, winVars, concVars, capVars, obsVars, rstVars, finVars,
                 unkVars, paceVars, slotVars, bonVars>>

NextRoundDrag ==
  \/ \E segmentFt \in Reqs, dir \in Dirs : MoveRequest(segmentFt, dir)
  \/ UpdateToken
  \/ CombatTurn
  \/ NextRound
  \/ \E segmentFt \in Reqs \cup {0} : RefreshToken(segmentFt)

SpecRound == InitRound /\ [][NextRoundDrag]_vars

\* The overlays add a preview in only when it carries the round they show.
previewApplies == mvPreview # 0 /\ mvPreview = combat.round

RoundChanged == combat'.round # combat.round

\* The total moved in the last slot-group of the round that ends, by the
\* track of the token.
LastGroupTotal ==
  sumMovementForInternalRange(track.usedBySlot, combat.round,
                              clamp(internalPhaseCount - combat.spr + 1, 1, internalPhaseCount),
                              internalPhaseCount)

\* The request mvLast' tells of is in the first slot-group of the round after
\* the one the snapshot was taken of.
FirstGroupAfterSnapshot ==
  mvLast'.start = 1 /\ carry.round >= 1 /\ mvLast'.round = carry.round + 1

UsageCleared == track' = NoTrack

SnapshotTaken ==
  track.exists =>
    carry' = [round |-> combat.round,
              start |-> clamp(internalPhaseCount - combat.spr + 1, 1, internalPhaseCount),
              end |-> internalPhaseCount, totalFt |-> LastGroupTotal]

\* The previous-phase total a request works with is the one of the track
\* unless the request is in the first slot-group after the snapshot.
SnapshotOnlyForFirstGroup ==
  (nReq' = nReq + 1 /\ mvLast'.mode = "move" /\ ~FirstGroupAfterSnapshot) =>
     LET prev == getPrevActionPhaseRange(mvLast'.round, mvLast'.start, mvLast'.end,
                                         combat.spr, internalPhaseCount)
     IN mvLast'.prevMovedFt =
          IF prev.round >= 1 /\ track.exists
            THEN sumMovementForInternalRange(track.usedBySlot, prev.round, prev.start, prev.end)
            ELSE 0

C38_WitnessStalePreview == combat.round = 2 /\ mvPreview = 1 /\ ~track.exists

\* C38, a request of a later slot-group of round 2 with a snapshot of round 1.
C38_WitnessLaterGroup ==
  /\ mvLast.round = 2 /\ mvLast.start > 1 /\ mvLast.mode = "move"
  /\ carry.round = 1 /\ carry.totalFt > 0

(***************************************************************************)
(* Part XVI: bonusCount lowered under a recorded plan.  The window is      *)
(* evaluated, the outputs are kept, bonusCount is lowered with the         *)
(* selections left as recorded, and the window getData builds then is      *)
(* evaluated again.                                                        *)
(***************************************************************************)

BonusKeysHeld(plan) == {k \in AllKeys : k[3] = "b" /\ plan[k] # "none"}

InitLower ==
  /\ ReplIdle
  /\ WinIdle /\ MoveIdle /\ ConcIdle /\ CapIdle /\ ObsIdle /\ RstIdle /\ FinIdle /\ PaceIdle
  /\ BonIdle /\ PvIdle
  /\ unk = [NoUnk EXCEPT !.stage = 1]
  /\ slotIn = [fn |-> "buildPhasesForAnalysis", bonusCount |-> MaxBonus]
  /\ slotOut = NoSlotOut
  /\ curRound \in 1..MaxRound
  /\ curPhase \in 1..internalPhaseCount
  /\ planActions \in {f \in Plans(MaxBonus) : BonusKeysHeld(f) # {}}
  /\ phases = buildPhasesForAnalysis(curRound, RoundsShown, MaxBonus, planActions)
  /\ \E immediateOn \in BOOLEAN :
       /\ concentrating = immediateOn
       /\ capByKey = buildCapByKey(phases, immediateOn, FALSE, 0)
  /\ finActs = {}
  /\ LoopIdle

\* The bonus spinner is set to a lower value b, and getData builds the
\* analysis window and the capacities of its selectors from it.
LowerBonusCount(b) ==
  /\ unk.stage = 1
  /\ idx = Len(phases)
  /\ ui.done
  /\ b < slotIn.bonusCount
  /\ slotIn' = [slotIn EXCEPT !.bonusCount = b]
  /\ unk' = [stage |-> 2, results |-> results, invalid |-> ui.invalid,
             complete |-> ui.complete, purple |-> ui.purple, need |-> ui.need]
  /\ \E ps \in {buildPhasesForAnalysis(curRound, RoundsShown, b, planActions)} :
       /\ phases' = ps
       /\ capByKey' = buildCapByKey(ps, concentrating, FALSE, 0)
  /\ idx' = 0 /\ currentAction' = "none" /\ remaining' = 0 /\ spentAP' = 0
  /\ minCost' = 0 /\ maxCost' = 0 /\ isRange' = FALSE
  /\ spentPhaseIdxs' = {} /\ results' = <<>> /\ brk' = NoBrk /\ ui' = NoUI
  /\ UNCHANGED <<planActions, finActs, concentrating, curRound, curPhase, slotOut>>
  /\ UNCHANGED <<replVars, winVars, moveVars, concVars, capVars, obsVars, rstVars, finVars,
                 paceVars, bonVars, pvVars>>

NextLower ==
  \/ EvalStep
  \/ Analyze
  \/ \E b \in 0..(MaxBonus - 1) : LowerBonusCount(b)

SpecLower == InitLower /\ [][NextLower]_vars

\* Every slot of the window whose bonus selector holds a selection has a
\* bonus sub-slot.
HeldBonusPromoted ==
  \A n \in 1..Len(phases) :
    planActions[phaseKey(phases[n].round, phases[n].phase, "b")] # "none"
      => phases[n].hasBonus

\* The evaluation under the lowered bonusCount is over.
EvaluatedLower == unk.stage = 2 /\ idx = Len(phases)

C39_WitnessEmptyDropped ==
  /\ EvaluatedLower
  /\ \E n \in 1..Len(phases) :
       hasBonusInPhase(phases[n].phase, MaxBonus) /\ ~phases[n].hasBonus

(***************************************************************************)
(* Part XVII: allocateAcrossSlots on its own.  The slot-group is the first *)
(* two internal slots of round 1, main and bonus selectors; the arguments  *)
(* are the Move selectors of a plan, the usage of the track, the distance  *)
(* and the caps of the selectors.                                          *)
(***************************************************************************)

AllocRng == [start |-> 1, end |-> 2]

AllocKeys == {groupKeys(1, AllocRng)[n] : n \in 1..Len(groupKeys(1, AllocRng))}

AllocUsed == {0, Ft(4), Ft(10)}
AllocDist == {Ft(3), Ft(9), Ft(30)}
AllocCaps ==
  {[k \in UsageKeys |-> IF k \in AllocKeys
                          THEN (IF k[2] = AllocRng.end /\ last > 0 THEN last ELSE c)
                          ELSE 0] : c \in {Ft(5), Ft(10)}, last \in {0, Ft(20)}}

InitAlloc ==
  /\ ReplIdle /\ ChainIdle /\ WinIdle /\ MoveIdle /\ ConcIdle /\ CapIdle /\ ObsIdle /\ RstIdle
  /\ FinIdle /\ UnkIdle /\ PaceIdle /\ BonIdle /\ PvIdle
  /\ \E moveAt \in SUBSET AllocKeys, u \in [AllocKeys -> AllocUsed],
        d \in AllocDist, caps \in AllocCaps :
       slotIn = [fn |-> "allocateAcrossSlots",
                 plan |-> [k \in MvKeys |-> IF k \in moveAt THEN MOVE_ACTION_KEY
                                            ELSE IF k \in AllocKeys THEN "melee"
                                            ELSE "none"],
                 used |-> [k \in UsageKeys |-> IF k \in AllocKeys THEN u[k] ELSE 0],
                 segmentFt |-> d, perSlotMax |-> caps]
  /\ slotOut = NoSlotOut

\* The Move selectors of the group are taken from the plan and the distance
\* is allocated over them.
Allocate ==
  /\ slotIn.fn = "allocateAcrossSlots"
  /\ ~slotOut.done
  /\ \E ms \in {getMoveSlotsForActor(slotIn.plan, 1, AllocRng)} :
     \E al \in {allocateAcrossSlots(ms.moveSlotKeys, slotIn.used, slotIn.segmentFt,
                                    slotIn.perSlotMax)} :
       slotOut' = [done |-> TRUE, moveSlotKeys |-> ms.moveSlotKeys,
                   allocations |-> al.allocations, overflow |-> al.overflow]
  /\ UNCHANGED slotIn
  /\ UNCHANGED <<replVars, chainVars, winVars, moveVars, concVars, capVars, obsVars, rstVars,
                 finVars, unkVars, paceVars, bonVars, pvVars>>

NextAlloc == Allocate

SpecAlloc == InitAlloc /\ [][NextAlloc]_vars

Allocated == slotOut.done /\ slotIn.fn = "allocateAcrossSlots"

\* What a selector can still take: its cap less its usage, never below 0.
Residual(k) == Max0(slotIn.perSlotMax[k] - slotIn.used[k])

\* What the selectors before the n-th of the list were given.
GivenBefore(n) ==
  SumUsed(slotOut.allocations, {slotOut.moveSlotKeys[i] : i \in 1..(n - 1)})

\* The list is the Move selectors of the group, the lower internal slot
\* first and in a slot the main selector before the bonus selector.
InSlotOrder ==
  LET ks == slotOut.moveSlotKeys
  IN /\ {ks[n] : n \in 1..Len(ks)} = {k \in AllocKeys : slotIn.plan[k] = MOVE_ACTION_KEY}
     /\ \A i, j \in 1..Len(ks) :
          i < j => \/ ks[i][2] < ks[j][2]
                   \/ ks[i][2] = ks[j][2] /\ ks[i][3] = "m" /\ ks[j][3] = "b"

\* C40: the distance goes over the Move selectors of the group in slot
\* order; each gets the smaller of what it can still take and what is not
\* allocated yet, a later one gets something only if every earlier one is
\* at its cap, and what is allocated plus the overflow is the distance.
C40_AllocationInSlotOrder ==
  Allocated =>
    LET ks == slotOut.moveSlotKeys
        al == slotOut.allocations
    IN /\ InSlotOrder
       /\ \A n \in 1..Len(ks) :
            /\ al[ks[n]] = MathMin(Residual(ks[n]), slotIn.segmentFt - GivenBefore(n))
            /\ al[ks[n]] > 0 =>
                 \A i \in 1..(n - 1) :
                   slotIn.used[ks[i]] + al[ks[i]] >= slotIn.perSlotMax[ks[i]]
       /\ \A k \in UsageKeys : k \notin {ks[n] : n \in 1..Len(ks)} => al[k] = 0
       /\ SumUsed(al, UsageKeys) + slotOut.overflow = slotIn.segmentFt

\* C40, the case: the bonus selector of slot 1 and the main selector of
\* slot 2 both hold Move, the first is filled to its cap, the second takes
\* a part of the rest, and a selector before them was at its cap already.
C40_Witness ==
  /\ Allocated
  /\ Len(slotOut.moveSlotKeys) >= 3
  /\ Residual(phaseKey(1, 1, "m")) = 0
  /\ slotOut.allocations[phaseKey(1, 1, "b")] = Residual(phaseKey(1, 1, "b"))
  /\ slotOut.allocations[phaseKey(1, 1, "b")] > 0
  /\ slotOut.allocations[phaseKey(1, 2, "m")] > 0
  /\ slotOut.allocations[phaseKey(1, 2, "m")] < Residual(phaseKey(1, 2, "m"))
  /\ slotOut.overflow = 0

\* C40, a distance that the selectors cannot take in full.
C40_WitnessOverflow ==
  /\ Allocated /\ slotOut.overflow > 0 /\ Len(slotOut.moveSlotKeys) >= 2
  /\ SumUsed(slotOut.allocations, UsageKeys) > 0

============================================================================
